---- MODULE Spec2Model ----
(***************************************************************************)
(* Model of the WireGuard connection-state supervisor                      *)
(* (WireGuardStateManager, package device) of ProtonVPN/wireguard-go.      *)
(*                                                                         *)
(* Time is in milliseconds, as in the unit test's virtual clock            *)
(* (timeNow = time.UnixMilli(timeMs)).  Every goroutine of the program is  *)
(* a process of the model: the event loop (handlerLoop), the publication   *)
(* goroutines started by postState, the goroutine started by Close, and    *)
(* the reader that keeps calling GetState.  A step of the model holds at   *)
(* most one access to a field that another goroutine may touch (closed,    *)
(* isNetAvailable, the channels).                                          *)
(***************************************************************************)
EXTENDS Integers, Sequences, FiniteSets

(* ------------------------------------------------------------------ *)
(* Program constants                                                    *)
(* ------------------------------------------------------------------ *)
initialRestartDelay == 4000
maxRestartDelay == 32000
resetRestartDelay == 600000
networkChangeGrace == 5000

WireGuardDisabled == 0
WireGuardConnecting == 1
WireGuardConnected == 2
WireGuardError == 3
WireGuardWaitingForNetwork == 4
\* what GetState returns once stateChan is closed and drained
GetStateClosed == 0 - 1

\* capacities of the channels made by NewWireGuardStateManager
eventChanCap == 100
closeChanCap == 1
stateChanCap == 1

HandshakeStates == {"HandshakeInit", "HandshakeSuccess", "HandshakeFail"}
Transmissions == {"tcp", "tls", "udp"}

\* error values; an error message is a sequence of fragments, nil is NilErr
NilErr == <<"nil">>
ErrBrokenPipe == <<"write tcp", "broken pipe">>
ErrConnReset == <<"read tcp", "connection reset by peer">>
ErrTimeout == <<"i/o timeout">>
SocketErrs == {NilErr, ErrBrokenPipe, ErrConnReset, ErrTimeout}

\* strings.Contains(errStr, sub) on the fragments of a message
Contains(errStr, sub) == \E i \in 1..Len(errStr) : errStr[i] = sub

\* the zero time.Time (startedTimestamp before the first bring-up); it is not
\* the Unix epoch: time.UnixMilli(0).IsZero() is false
ZeroTime == 0 - 1
IsZero(t) == t = ZeroTime
\* t.After(u)
After(t, u) == t > u

(* ------------------------------------------------------------------ *)
(* Bounds of the model                                                  *)
(* ------------------------------------------------------------------ *)
MaxEvents == 2
MaxScenarioEvents == 3
MaxCloses == 1
MaxTime == 5001
MaxTicks == 8
MaxFrames == 3
MaxInFlight == 1
MaxOpens == 2
MaxBindCloses == 2
MaxSendCalls == 1
MaxReceiveCalls == 2
MaxPeerWrites == 1
\* clock steps of the supervisor scenarios and of the shouldRestart test
ClockSteps == {4000, 4001, 5001}
TestClockSteps == {1, 4000, 8000, 16000, 32000, 600000}

VARIABLES
  transmission,      \* man.transmission
  timeMs,            \* the virtual clock read by timeNow
  lastRestart,       \* man.lastRestart
  nextRestartDelay,  \* man.nextRestartDelay
  startedTimestamp,  \* man.startedTimestamp
  isNetAvailable,    \* man.isNetAvailable
  closed,            \* man.closed
  networkAvailableChan, SocketErrChan, HandshakeStateChan,
  closeChan,         \* number of values buffered in man.closeChan
  stateChan,         \* buffer of man.stateChan
  stateChanClosed,   \* close(man.stateChan) has happened
  pc,                \* position of handlerLoop
  retPc,             \* where handlerLoop continues after maybeRestart
  netAvailable,      \* handlerLoop's local netAvailable
  wasSet,            \* handlerLoop's wasNetAvailablePtr # nil
  posts,             \* the goroutines started by postState
  nPosted,           \* number of postState calls so far
  closers,           \* the goroutines started by Close, by position
  nCloses,           \* number of Close calls so far
  isUp, upCount, downCount,   \* the device (MockDevice)
  devErr,            \* error returned by the last device call
  srCalled, srRet,   \* shouldRestart was called / its last result
  lastState,         \* the reader's lastState, and the publication it came from
  panicked,          \* a goroutine panicked: the process is gone
  nEvents, nTicks,   \* events posted / clock steps taken so far
  lastEvent,         \* the event posted last by the client
  netHist,           \* the SetNetworkAvailable arguments so far
  netTimes           \* the clock at each SetNetworkAvailable call

VARIABLES
  bufs,              \* the caller's packet buffers (backing arrays)
  wgSendPrefix,      \* sender's tunSafe.wgSendPrefix: the slice's backing array
  wgSendCount,       \* sender's tunSafe.wgSendCount
  wgRecvPrefix,      \* receiver's tunSafe.wgRecvPrefix
  wgRecvCount,       \* receiver's tunSafe.wgRecvCount
  wire,              \* the bytes written by the sender and not yet read
  inFlight,          \* the datagrams whose frames are on the wire
  lastSent,          \* the datagram encoded last, <<>> before the first
  lastFrame,         \* the frame emitted last
  lastDecoded,       \* the result of the last decode
  nEncoded, nElided, \* frames emitted / emitted Data-elided so far
  nDecoded           \* frames decoded so far

codecVars == <<bufs, wgSendPrefix, wgSendCount, wgRecvPrefix, wgRecvCount, wire,
               inFlight, lastSent, lastFrame, lastDecoded, nEncoded, nElided,
               nDecoded>>

\* the supervisor's variables
managerVars == <<transmission, timeMs, lastRestart, nextRestartDelay, startedTimestamp,
          isNetAvailable, closed, networkAvailableChan, SocketErrChan,
          HandshakeStateChan, closeChan, stateChan, stateChanClosed, pc, retPc,
          netAvailable, wasSet, posts, nPosted, closers, nCloses, isUp, upCount,
          downCount, devErr, srCalled, srRet, lastState, panicked, nEvents,
          nTicks, lastEvent, netHist, netTimes>>

VARIABLES
  bind,              \* StdNetBindTcp: closed, tcp, tls, currentPacket
  conns,             \* the connections dialled so far
  errorChan,         \* bind.errorChan: the errors published
  sender,            \* the goroutines calling Send
  receiver,          \* the goroutine calling the receive function
  bindLog,           \* what has happened to the bind so far
  calls              \* number of calls so far, by function

bindVars == <<bind, conns, errorChan, sender, receiver, bindLog, calls>>

\* the variables of the stream bind and of its codec
streamVars == <<codecVars, bindVars>>

vars == <<managerVars, streamVars>>

\* the variables the event loop's handlers write, as one record
loopVars == <<lastRestart, nextRestartDelay, startedTimestamp, pc, retPc, posts,
              nPosted, isUp, upCount, downCount, devErr, srCalled, srRet>>
\* what the scenarios remember of the events posted
scenarioVars == <<lastEvent, netHist, netTimes>>

cur ==
  [lastRestart |-> lastRestart, nextRestartDelay |-> nextRestartDelay,
   startedTimestamp |-> startedTimestamp, pc |-> pc, retPc |-> retPc,
   posts |-> posts, nPosted |-> nPosted, isUp |-> isUp, upCount |-> upCount,
   downCount |-> downCount, devErr |-> devErr, srCalled |-> srCalled,
   srRet |-> srRet]

Apply(s) ==
  /\ lastRestart' = s.lastRestart
  /\ nextRestartDelay' = s.nextRestartDelay
  /\ startedTimestamp' = s.startedTimestamp
  /\ pc' = s.pc
  /\ retPc' = s.retPc
  /\ posts' = s.posts
  /\ nPosted' = s.nPosted
  /\ isUp' = s.isUp
  /\ upCount' = s.upCount
  /\ downCount' = s.downCount
  /\ devErr' = s.devErr
  /\ srCalled' = s.srCalled
  /\ srRet' = s.srRet

timeNow == timeMs

(* ------------------------------------------------------------------ *)
(* The supervisor's functions, on the record of loop variables          *)
(* ------------------------------------------------------------------ *)

\* MockDevice.Up / MockDevice.Down: both return nil
Up(s) == [s EXCEPT !.isUp = TRUE, !.upCount = @ + 1, !.devErr = FALSE]
Down(s) == [s EXCEPT !.isUp = FALSE, !.downCount = @ + 1, !.devErr = FALSE]

\* postState starts a goroutine; it has not read closed or isNetAvailable yet
postState(s, state) ==
  [s EXCEPT !.posts = @ \cup {[st |-> state, at |-> "closed", id |-> s.nPosted + 1]},
            !.nPosted = @ + 1]

\* shouldRestart with the comparison "not before" where the code has "after"
shouldRestart_notBefore(s) ==
  LET now == timeNow
      restart == now >= s.lastRestart + s.nextRestartDelay
      doubled == 2 * s.nextRestartDelay
  IN IF restart
     THEN [s EXCEPT
             !.nextRestartDelay =
                IF After(now, s.lastRestart + resetRestartDelay)
                THEN initialRestartDelay
                ELSE IF doubled > maxRestartDelay THEN maxRestartDelay ELSE doubled,
             !.lastRestart = now,
             !.srCalled = TRUE,
             !.srRet = TRUE]
     ELSE [s EXCEPT !.srCalled = TRUE, !.srRet = FALSE]

\* shouldRestart without the cap at maxRestartDelay
shouldRestart_noCap(s) ==
  LET now == timeNow
      restart == After(now, s.lastRestart + s.nextRestartDelay)
  IN IF restart
     THEN [s EXCEPT
             !.nextRestartDelay =
                IF After(now, s.lastRestart + resetRestartDelay)
                THEN initialRestartDelay
                ELSE 2 * s.nextRestartDelay,
             !.lastRestart = now,
             !.srCalled = TRUE,
             !.srRet = TRUE]
     ELSE [s EXCEPT !.srCalled = TRUE, !.srRet = FALSE]

\* shouldRestart that never resets the delay
shouldRestart_noReset(s) ==
  LET now == timeNow
      restart == After(now, s.lastRestart + s.nextRestartDelay)
      doubled == 2 * s.nextRestartDelay
  IN IF restart
     THEN [s EXCEPT
             !.nextRestartDelay =
                IF doubled > maxRestartDelay THEN maxRestartDelay ELSE doubled,
             !.lastRestart = now,
             !.srCalled = TRUE,
             !.srRet = TRUE]
     ELSE [s EXCEPT !.srCalled = TRUE, !.srRet = FALSE]

shouldRestart(s) ==
  LET now == timeNow
      restart == After(now, s.lastRestart + s.nextRestartDelay)
      doubled == 2 * s.nextRestartDelay
  IN IF restart
     THEN [s EXCEPT
             !.nextRestartDelay =
                IF After(now, s.lastRestart + resetRestartDelay)
                THEN initialRestartDelay
                ELSE IF doubled > maxRestartDelay THEN maxRestartDelay ELSE doubled,
             !.lastRestart = now,
             !.srCalled = TRUE,
             !.srRet = TRUE]
     ELSE [s EXCEPT !.srCalled = TRUE, !.srRet = FALSE]

\* maybeRestart without the test of the transmission
maybeRestart_anyTransmission(s) ==
  LET s1 == shouldRestart(s)
  IN IF s1.srRet
     THEN [Down(postState(s1, WireGuardConnecting)) EXCEPT
             !.retPc = s.pc, !.pc = "restartUp"]
     ELSE s1

\* maybeRestart up to and including device.Down(); the read of man.closed
\* and device.Up() are the loop's next step (LoopRestartUp).  man.mu is only
\* ever locked by the event loop, so Lock never waits.
maybeRestart(s) ==
  IF transmission = "udp"
  THEN s
  ELSE LET s1 == shouldRestart(s)
       IN IF s1.srRet
          THEN [Down(postState(s1, WireGuardConnecting)) EXCEPT
                  !.retPc = s.pc, !.pc = "restartUp"]
          ELSE s1

\* setActive that leaves the device up when it is asked to stop it
setActive_upOnly(s, activate) ==
  LET s1 == IF activate THEN Up(postState(s, WireGuardConnecting)) ELSE s
  IN IF s1.devErr THEN postState(s1, WireGuardError) ELSE s1

setActive(s, activate) ==
  LET s1 == IF activate THEN Up(postState(s, WireGuardConnecting)) ELSE Down(s)
  IN IF s1.devErr THEN postState(s1, WireGuardError) ELSE s1

\* handleSocketErr that forgets "connection reset by peer"
handleSocketErr_brokenPipeOnly(s, err) ==
  IF err # NilErr
  THEN IF Contains(err, "broken pipe") THEN maybeRestart(s) ELSE s
  ELSE s

handleSocketErr(s, err) ==
  IF err # NilErr
  THEN IF Contains(err, "broken pipe") \/ Contains(err, "connection reset by peer")
       THEN maybeRestart(s)
       ELSE s
  ELSE s

\* handleHandshakeState that treats HandshakeSuccess like HandshakeInit
handleHandshakeState_successAsInit(s, state) ==
  CASE state = "HandshakeInit" -> postState(s, WireGuardConnecting)
    [] state = "HandshakeSuccess" -> postState(s, WireGuardConnecting)
    [] state = "HandshakeFail" -> maybeRestart(postState(s, WireGuardError))
    [] OTHER -> s

handleHandshakeState(s, state) ==
  CASE state = "HandshakeInit" -> postState(s, WireGuardConnecting)
    [] state = "HandshakeSuccess" -> postState(s, WireGuardConnected)
    [] state = "HandshakeFail" -> maybeRestart(postState(s, WireGuardError))
    [] OTHER -> s

\* wasAvailable is nil (wasNil) or points to man.isNetAvailable
onNetworkAvailabilityChange(s, wasNil, available) ==
  LET s1 == IF ~available THEN postState(s, WireGuardWaitingForNetwork) ELSE s
  IN IF available /\ wasNil
     THEN [setActive(s1, TRUE) EXCEPT !.startedTimestamp = timeNow]
     ELSE IF /\ available
             /\ isNetAvailable
             /\ ~IsZero(s1.startedTimestamp)
             /\ After(timeNow, s1.startedTimestamp + networkChangeGrace)
     THEN maybeRestart(s1)
     ELSE IF available /\ ~isNetAvailable
     THEN setActive(s1, TRUE)
     ELSE IF ~available /\ ~wasNil /\ isNetAvailable
     THEN setActive(s1, FALSE)
     ELSE s1

(* ------------------------------------------------------------------ *)
(* The TunSafe framing codec (conn/tcp_tls_utils.go)                    *)
(* ------------------------------------------------------------------ *)
wgDataPrefix == <<4, 0, 0, 0>>
wgDataHeaderSize == 16
wgDataPrefixSize == 8
tunSafeHeaderSize == 2
tunSafeNormalType == 0
tunSafeDataType == 2

\* a byte slice s[lo:hi] of Go, and the test that it is within the capacity
Slice(s, lo, hi) == SubSeq(s, lo + 1, hi)
InRange(s, hi) == hi <= Len(s)
Zeros(n) == [i \in 1..n |-> 0]
HasPrefix(s, prefix) == Len(s) >= Len(prefix) /\ SubSeq(s, 1, Len(prefix)) = prefix
uint8(x) == x % 256

RECURSIVE BitOr(_, _)
BitOr(a, b) ==
  IF a = 0 THEN b
  ELSE IF b = 0 THEN a
  ELSE 2 * BitOr(a \div 2, b \div 2) + (IF a % 2 = 1 \/ b % 2 = 1 THEN 1 ELSE 0)

\* a uint64 is kept as its eight base-256 digits, most significant first
U64(n) == [i \in 1..8 |-> IF i < 6 THEN 0 ELSE (n \div (256 ^ (8 - i))) % 256]
MaxU64 == [i \in 1..8 |-> 255]

RECURSIVE Carry(_, _)
Carry(v, i) ==
  IF i = 0 THEN v
  ELSE IF v[i] = 255 THEN Carry([v EXCEPT ![i] = 0], i - 1)
  ELSE [v EXCEPT ![i] = v[i] + 1]

\* v + 1 of uint64 arithmetic: it wraps at 2^64
AddOne(v) == Carry(v, 8)

\* binary.Read / binary.Write with binary.LittleEndian: the first byte is the
\* least significant digit
LittleEndianRead(b) == [i \in 1..8 |-> b[9 - i]]
LittleEndianWrite(v) == [i \in 1..8 |-> v[9 - i]]

\* tunSafe.wgSendPrefix is a slice: of the array made by NewTunSafeData, or,
\* once wgToTunSafe has assigned wgPacket[:8] to it, of the caller's buffer
OwnArray == 0
Buffers == {1, 2}
SendPrefixBytes(mem, ref) ==
  IF ref = OwnArray THEN Zeros(wgDataPrefixSize) ELSE Slice(mem[ref], 0, wgDataPrefixSize)

\* the caller writes a datagram at the start of one of its buffers
Fill(buffer, wgPacket) ==
  IF Len(wgPacket) >= Len(buffer) THEN wgPacket
  ELSE wgPacket \o SubSeq(buffer, Len(wgPacket) + 1, Len(buffer))

NewTunSafeData ==
  [wgSendPrefix |-> OwnArray, wgSendCount |-> U64(0),
   wgRecvPrefix |-> Zeros(wgDataPrefixSize), wgRecvCount |-> U64(0)]

parseTunSafeHeader(header) ==
  [type |-> header[1] \div 64,
   size |-> (header[1] % 64) * 256 + header[2]]

\* clear that forgets the prefixes too
clear_zeroesPrefixes(tunSafe) ==
  [tunSafe EXCEPT !.wgSendCount = U64(0), !.wgRecvCount = U64(0),
                  !.wgSendPrefix = OwnArray, !.wgRecvPrefix = Zeros(wgDataPrefixSize)]

clear(tunSafe) ==
  [tunSafe EXCEPT !.wgSendCount = U64(0), !.wgRecvCount = U64(0)]

\* copy(wgPacket, wgRecvPrefix || wgRecvCount (little endian))
writeWgHeader(tunSafe, wgPacket) ==
  tunSafe.wgRecvPrefix \o LittleEndianWrite(tunSafe.wgRecvCount)
    \o SubSeq(wgPacket, wgDataHeaderSize + 1, Len(wgPacket))

prepareWgPacket(tunSafe, tunSafeType, payloadSize) ==
  CASE tunSafeType = tunSafeNormalType ->
         [wgPacket |-> Zeros(payloadSize), offset |-> 0, err |-> FALSE]
    [] tunSafeType = tunSafeDataType ->
         [wgPacket |-> writeWgHeader(tunSafe, Zeros(payloadSize + wgDataHeaderSize)),
          offset |-> wgDataHeaderSize, err |-> FALSE]
    [] OTHER -> [wgPacket |-> <<>>, offset |-> 0, err |-> TRUE]

\* onRecvPacket that does not count a Normal frame
onRecvPacket_noIncrement(tunSafe, tunSafeType, wgPacket) ==
  IF tunSafeType = tunSafeNormalType /\ HasPrefix(wgPacket, wgDataPrefix)
  THEN IF ~InRange(wgPacket, wgDataPrefixSize)
       THEN [tunSafe |-> tunSafe, panic |-> TRUE]
       ELSE LET t1 == [tunSafe EXCEPT
                         !.wgRecvPrefix = Slice(wgPacket, 0, wgDataPrefixSize)]
            IN IF ~InRange(wgPacket, wgDataHeaderSize)
               THEN [tunSafe |-> t1, panic |-> TRUE]
               ELSE [tunSafe |-> [t1 EXCEPT !.wgRecvCount =
                        LittleEndianRead(Slice(wgPacket, wgDataPrefixSize,
                                               wgDataHeaderSize))],
                     panic |-> FALSE]
  ELSE [tunSafe |-> [tunSafe EXCEPT !.wgRecvCount = AddOne(@)], panic |-> FALSE]

\* panic: a slice expression of onRecvPacket is out of range (the packet was
\* made with len = cap = payloadSize)
onRecvPacket(tunSafe, tunSafeType, wgPacket) ==
  IF tunSafeType = tunSafeNormalType /\ HasPrefix(wgPacket, wgDataPrefix)
  THEN IF ~InRange(wgPacket, wgDataPrefixSize)
       THEN [tunSafe |-> tunSafe, panic |-> TRUE]
       ELSE LET t1 == [tunSafe EXCEPT
                         !.wgRecvPrefix = Slice(wgPacket, 0, wgDataPrefixSize)]
            IN IF ~InRange(wgPacket, wgDataHeaderSize)
               THEN [tunSafe |-> t1, panic |-> TRUE]
               ELSE [tunSafe |-> [t1 EXCEPT !.wgRecvCount =
                        AddOne(LittleEndianRead(Slice(wgPacket, wgDataPrefixSize,
                                                      wgDataHeaderSize)))],
                     panic |-> FALSE]
  ELSE [tunSafe |-> [tunSafe EXCEPT !.wgRecvCount = AddOne(@)], panic |-> FALSE]

wgToTunSafeNormal(wgPacket) ==
  LET payloadSize == Len(wgPacket)
  IN <<uint8(payloadSize \div 256), uint8(payloadSize % 256)>> \o wgPacket

wgToTunSafeData(wgPacket) ==
  LET payloadSize == Len(wgPacket) - wgDataHeaderSize
  IN <<uint8(BitOr(tunSafeDataType * 64, payloadSize \div 256)),
       uint8(payloadSize % 256)>>
       \o SubSeq(wgPacket, wgDataHeaderSize + 1, Len(wgPacket))

\* wgToTunSafe that never stores the datagram's prefix and counter
wgToTunSafe_noPriming(tunSafe, mem, b, wgPacket) ==
  IF Len(wgPacket) < wgDataHeaderSize
  THEN [frame |-> wgToTunSafeNormal(wgPacket), tunSafe |-> tunSafe]
  ELSE LET wgPrefix == Slice(wgPacket, 0, wgDataPrefixSize)
           wgCount == LittleEndianRead(Slice(wgPacket, wgDataPrefixSize,
                                             wgDataHeaderSize))
           prefixMatch == wgPrefix = SendPrefixBytes(mem, tunSafe.wgSendPrefix)
       IN IF prefixMatch /\ wgCount = AddOne(tunSafe.wgSendCount)
          THEN [frame |-> wgToTunSafeData(wgPacket),
                tunSafe |-> [tunSafe EXCEPT !.wgSendCount = AddOne(@)]]
          ELSE [frame |-> wgToTunSafeNormal(wgPacket), tunSafe |-> tunSafe]

\* wgToTunSafe that sends every datagram in a Normal frame
wgToTunSafe_neverElides(tunSafe, mem, b, wgPacket) ==
  IF Len(wgPacket) >= wgDataHeaderSize /\ HasPrefix(wgPacket, wgDataPrefix)
  THEN [frame |-> wgToTunSafeNormal(wgPacket),
        tunSafe |-> [tunSafe EXCEPT
           !.wgSendPrefix = b,
           !.wgSendCount = LittleEndianRead(Slice(wgPacket, wgDataPrefixSize,
                                                  wgDataHeaderSize))]]
  ELSE [frame |-> wgToTunSafeNormal(wgPacket), tunSafe |-> tunSafe]

\* wgPacket is the datagram, held in the caller's buffer b of the memory mem
wgToTunSafe(tunSafe, mem, b, wgPacket) ==
  IF Len(wgPacket) < wgDataHeaderSize
  THEN [frame |-> wgToTunSafeNormal(wgPacket), tunSafe |-> tunSafe]
  ELSE LET wgPrefix == Slice(wgPacket, 0, wgDataPrefixSize)
           wgCount == LittleEndianRead(Slice(wgPacket, wgDataPrefixSize,
                                             wgDataHeaderSize))
           prefixMatch == wgPrefix = SendPrefixBytes(mem, tunSafe.wgSendPrefix)
       IN IF prefixMatch /\ wgCount = AddOne(tunSafe.wgSendCount)
          THEN [frame |-> wgToTunSafeData(wgPacket),
                tunSafe |-> [tunSafe EXCEPT !.wgSendCount = AddOne(@)]]
          ELSE IF HasPrefix(wgPacket, wgDataPrefix)
          THEN [frame |-> wgToTunSafeNormal(wgPacket),
                tunSafe |-> [tunSafe EXCEPT !.wgSendPrefix = b,
                                            !.wgSendCount = wgCount]]
          ELSE [frame |-> wgToTunSafeNormal(wgPacket), tunSafe |-> tunSafe]

\* io.ReadFull can fill the header and then the payload from the bytes of conn
CanReadNextPacket(conn) ==
  /\ Len(conn) >= tunSafeHeaderSize
  /\ LET h == parseTunSafeHeader(SubSeq(conn, 1, tunSafeHeaderSize))
     IN \/ h.type \notin {tunSafeNormalType, tunSafeDataType}
        \/ Len(conn) >= tunSafeHeaderSize + h.size

\* readNextPacket on the bytes of conn: the error, the packet that becomes
\* currentPacket, the codec state and the bytes left on conn
readNextPacket(tunSafe, conn) ==
  LET h == parseTunSafeHeader(SubSeq(conn, 1, tunSafeHeaderSize))
      prep == prepareWgPacket(tunSafe, h.type, h.size)
      body == SubSeq(conn, tunSafeHeaderSize + 1, tunSafeHeaderSize + h.size)
      wgPacket == SubSeq(prep.wgPacket, 1, prep.offset) \o body
      done == onRecvPacket(tunSafe, h.type, wgPacket)
  IN IF prep.err
     THEN [err |-> TRUE, panic |-> FALSE, wgPacket |-> <<>>, tunSafe |-> tunSafe,
           conn |-> SubSeq(conn, tunSafeHeaderSize + 1, Len(conn))]
     ELSE [err |-> FALSE, panic |-> done.panic, wgPacket |-> wgPacket,
           tunSafe |-> done.tunSafe,
           conn |-> SubSeq(conn, tunSafeHeaderSize + h.size + 1, Len(conn))]

\* the datagrams handed to the codec
DataPrefixP == <<4, 0, 0, 0, 170, 187, 204, 221>>
DataPrefixQ == <<4, 0, 0, 0, 17, 34, 51, 68>>
HandshakePrefix == <<1, 0, 0, 0, 17, 34, 51, 68>>
H(prefix, count, body) == prefix \o LittleEndianWrite(count) \o body
Counters == {0, 1, 2, 3, 5, 6}
Datagrams ==
  {H(DataPrefixP, U64(c), <<c>>) : c \in Counters}
    \cup {H(DataPrefixQ, U64(c), <<>>) : c \in {2, 6}}
    \cup {H(DataPrefixP, MaxU64, <<9>>)}
    \cup {H(Zeros(wgDataPrefixSize), U64(1), <<7>>)}
    \cup {H(HandshakePrefix, U64(2), <<7, 7>>)}
    \cup {<<4, 0, 0, 0>>, <<4, 0, 0, 0, 1, 2, 3, 4, 5, 6>>, <<1, 2, 3>>, <<>>}

IsData(wgPacket) == HasPrefix(wgPacket, wgDataPrefix)
PrefixOf(wgPacket) == Slice(wgPacket, 0, wgDataPrefixSize)
CounterOf(wgPacket) ==
  LittleEndianRead(Slice(wgPacket, wgDataPrefixSize, wgDataHeaderSize))

tunsafe ==
  [wgSendPrefix |-> wgSendPrefix, wgSendCount |-> wgSendCount,
   wgRecvPrefix |-> wgRecvPrefix, wgRecvCount |-> wgRecvCount]

NoDecode == [err |-> FALSE, panic |-> FALSE, wgPacket |-> <<>>, of |-> <<>>, n |-> 0]

InitCodec ==
  /\ bufs = [b \in Buffers |-> <<>>]
  /\ wgSendPrefix = NewTunSafeData.wgSendPrefix
  /\ wgSendCount = NewTunSafeData.wgSendCount
  /\ wgRecvPrefix = NewTunSafeData.wgRecvPrefix
  /\ wgRecvCount = NewTunSafeData.wgRecvCount
  /\ wire = <<>>
  /\ inFlight = <<>>
  /\ lastSent = <<>>
  /\ lastFrame = <<>>
  /\ lastDecoded = NoDecode
  /\ nEncoded = 0
  /\ nElided = 0
  /\ nDecoded = 0

(* ------------------------------------------------------------------ *)
(* The stream bind StdNetBindTcp (conn/bind_std_tcp.go)                 *)
(* ------------------------------------------------------------------ *)
ErrClosed == <<"use of closed network connection">>
ErrBindAlreadyOpen == <<"bind is already open">>
ErrUnknownType == <<"StdNetBindTcp: unknown TunSafe type">>
ErrDial == <<"dial tcp", "connection refused">>
ErrTlsHandshake == <<"tls", "handshake failure">>
EOF == <<"EOF">>
NilConn == 0

\* bind.mu is unlocked or held by a goroutine: one of the senders, the receiver
Unlocked == 0
Senders == {1, 2}
Receiver == 3

\* the bind, its connections, its error channel and its codec as one value
bindState ==
  [bind |-> bind, conns |-> conns, errorChan |-> errorChan, tunSafe |-> tunsafe,
   dials |-> bindLog.dials]

useTls == transmission = "tls"

\* onSocketError that publishes whatever bind.closed says
onSocketError_always(st, err) ==
  IF err # NilErr
  THEN [st EXCEPT !.errorChan = Append(@, err)]
  ELSE st

onSocketError(st, err) ==
  IF err # NilErr /\ ~st.bind.closed
  THEN [st EXCEPT !.errorChan = Append(@, err)]
  ELSE st

\* conn.Close() of the connection c
CloseConn(st, c) ==
  IF c = NilConn THEN st ELSE [st EXCEPT !.conns[c].closed = TRUE]

closeInternal(st) ==
  LET s1 == IF st.bind.tls # NilConn
            THEN [CloseConn(st, st.bind.tls) EXCEPT !.bind.tls = NilConn]
            ELSE st
      s2 == IF s1.bind.tcp # NilConn
            THEN [CloseConn(s1, s1.bind.tcp) EXCEPT !.bind.tcp = NilConn]
            ELSE s1
  IN [s2 EXCEPT !.tunSafe = clear(@)]

\* Close, which runs with bind.mu held
StdNetBindTcpClose(st) == closeInternal([st EXCEPT !.bind.closed = TRUE])

\* dialOk: the outcome of dialTcp
initTcp(st, dialOk) ==
  IF st.bind.tcp # NilConn
  THEN [st |-> st, err |-> ErrBindAlreadyOpen]
  ELSE LET s1 == [st EXCEPT !.dials = @ + 1]
       IN IF ~dialOk
          THEN [st |-> onSocketError(s1, ErrDial), err |-> ErrDial]
          ELSE [st |-> [s1 EXCEPT
                          !.conns = Append(@, [closed |-> FALSE, rx |-> <<>>,
                                               tx |-> <<>>]),
                          !.bind.tcp = Len(s1.conns) + 1],
                err |-> NilErr]

\* tlsOk: the outcome of conn.Handshake()
upgradeToTls(st, tlsOk) ==
  IF tlsOk
  THEN [st |-> [st EXCEPT !.bind.tls = st.bind.tcp], err |-> NilErr]
  ELSE [st |-> CloseConn(onSocketError(st, ErrTlsHandshake), st.bind.tcp),
        err |-> ErrTlsHandshake]

getConnInternal(st, dialOk, tlsOk) ==
  LET r1 == IF st.bind.tcp = NilConn THEN initTcp(st, dialOk)
            ELSE [st |-> st, err |-> NilErr]
  IN IF r1.err # NilErr
     THEN [st |-> r1.st, conn |-> NilConn, err |-> r1.err]
     ELSE IF ~useTls
     THEN [st |-> r1.st, conn |-> r1.st.bind.tcp, err |-> NilErr]
     ELSE LET r2 == IF r1.st.bind.tls = NilConn THEN upgradeToTls(r1.st, tlsOk)
                    ELSE [st |-> r1.st, err |-> NilErr]
          IN IF r2.err # NilErr
             THEN [st |-> closeInternal(r2.st), conn |-> NilConn, err |-> r2.err]
             ELSE [st |-> r2.st, conn |-> r2.st.bind.tls, err |-> NilErr]

\* getConn has to dial or to shake hands before it returns
Blocks(st) ==
  /\ ~st.bind.closed
  /\ st.bind.tcp = NilConn \/ (useTls /\ st.bind.tls = NilConn)

\* getConn that does not set bind.closed when the connection fails
getConn_noLatch(st, dialOk, tlsOk) ==
  IF st.bind.closed
  THEN [st |-> st, conn |-> NilConn, err |-> ErrClosed]
  ELSE getConnInternal(st, dialOk, tlsOk)

\* the whole of getConn runs with bind.mu held
getConn(st, dialOk, tlsOk) ==
  IF st.bind.closed
  THEN [st |-> st, conn |-> NilConn, err |-> ErrClosed]
  ELSE LET r == getConnInternal(st, dialOk, tlsOk)
       IN IF r.err # NilErr
          THEN [r EXCEPT !.st.bind.closed = TRUE]
          ELSE r

\* currentPacket.Read(buff) with len(buff) = n: bytes.Reader returns io.EOF
\* when nothing is left
ReadCurrentPacket(packet, n) ==
  IF packet = <<>>
  THEN [n |-> 0, err |-> EOF, bytes |-> <<>>, rest |-> <<>>]
  ELSE LET k == IF n < Len(packet) THEN n ELSE Len(packet)
       IN [n |-> k, err |-> NilErr, bytes |-> SubSeq(packet, 1, k),
           rest |-> SubSeq(packet, k + 1, Len(packet))]

\* what the bind sends, what the peer writes, the sizes of receive buffers
BindDatagrams == {H(DataPrefixP, U64(1), <<1>>), H(DataPrefixP, U64(2), <<2>>)}
PeerFrames ==
  {wgToTunSafeNormal(H(DataPrefixQ, U64(1), <<1>>)),
   <<0, 3, 1, 2, 3>>,
   <<64, 3, 0, 1, 7>>,
   <<0, 0>>,
   <<0, 4, 4, 0, 0, 0>>}
BuffSizes == {2, 64}

InitBind ==
  /\ bind = [mu |-> Unlocked, closed |-> FALSE, tcp |-> NilConn, tls |-> NilConn,
             currentPacket |-> <<>>]
  /\ conns = <<>>
  /\ errorChan = <<>>
  /\ sender = [s \in Senders |->
                 [pc |-> "idle", calls |-> 0, conn |-> NilConn, buff |-> 1,
                  wgPacket |-> <<>>, frame |-> <<>>, seq |-> 0, err |-> NilErr,
                  ret |-> NilErr]]
  /\ receiver = [pc |-> "idle", conn |-> NilConn, len |-> 0, err |-> NilErr,
                 ret |-> [n |-> 0, err |-> NilErr, bytes |-> <<>>]]
  /\ bindLog = [opened |-> FALSE, latched |-> FALSE, openRet |-> NilErr,
                aborted |-> {}, dials |-> 0, encoded |-> 0, written |-> <<>>]
  /\ calls = [Open |-> 0, Close |-> 0, Send |-> 0, receive |-> 0, peer |-> 0]

(* ------------------------------------------------------------------ *)
(* Initial state: NewWireGuardStateManager at t = 0, Start, a reader    *)
(* ------------------------------------------------------------------ *)
Init ==
  /\ transmission \in Transmissions
  /\ timeMs = 0
  /\ lastRestart = 0
  /\ nextRestartDelay = initialRestartDelay
  /\ startedTimestamp = ZeroTime
  /\ isNetAvailable = FALSE
  /\ closed = FALSE
  /\ networkAvailableChan = <<>>
  /\ SocketErrChan = <<>>
  /\ HandshakeStateChan = <<>>
  /\ closeChan = 0
  /\ stateChan = <<>>
  /\ stateChanClosed = FALSE
  /\ pc = "select"
  /\ retPc = "select"
  /\ netAvailable = FALSE
  /\ wasSet = FALSE
  /\ posts = {}
  /\ nPosted = 0
  /\ closers = [p \in {"closeChan", "stateChan", "close"} |-> 0]
  /\ nCloses = 0
  /\ isUp = FALSE
  /\ upCount = 0
  /\ downCount = 0
  /\ devErr = FALSE
  /\ srCalled = FALSE
  /\ srRet = FALSE
  /\ lastState = [st |-> WireGuardDisabled, id |-> 0]
  /\ panicked = FALSE
  /\ nEvents = 0
  /\ nTicks = 0
  /\ lastEvent = <<"none">>
  /\ netHist = <<>>
  /\ netTimes = <<>>
  /\ InitCodec
  /\ InitBind

\* the supervisor is idle: the loop waits in select with nothing to receive,
\* every publication goroutine has finished and the reader has taken
\* everything that was published
Quiescent ==
  /\ pc = "select"
  /\ networkAvailableChan = <<>>
  /\ SocketErrChan = <<>>
  /\ HandshakeStateChan = <<>>
  /\ closeChan = 0
  /\ posts = {}
  /\ stateChan = <<>>
  /\ \A p \in DOMAIN closers : closers[p] = 0

(* ------------------------------------------------------------------ *)
(* The client: the host posting events, calling Close, moving the clock *)
(* ------------------------------------------------------------------ *)
SetNetworkAvailable(available) ==
  /\ ~panicked
  /\ Len(networkAvailableChan) < eventChanCap
  /\ networkAvailableChan' = Append(networkAvailableChan, available)
  /\ nEvents' = nEvents + 1
  /\ UNCHANGED <<transmission, timeMs, isNetAvailable, closed, SocketErrChan,
                 HandshakeStateChan, closeChan, stateChan, stateChanClosed,
                 netAvailable, wasSet, closers, nCloses, lastState, panicked,
                 nTicks, loopVars>>

\* manager.HandshakeStateChan <- state
SendHandshakeState(state) ==
  /\ ~panicked
  /\ Len(HandshakeStateChan) < eventChanCap
  /\ HandshakeStateChan' = Append(HandshakeStateChan, state)
  /\ nEvents' = nEvents + 1
  /\ UNCHANGED <<transmission, timeMs, isNetAvailable, closed, SocketErrChan,
                 networkAvailableChan, closeChan, stateChan, stateChanClosed,
                 netAvailable, wasSet, closers, nCloses, lastState, panicked,
                 nTicks, loopVars>>

\* manager.SocketErrChan <- err
SendSocketErr(err) ==
  /\ ~panicked
  /\ Len(SocketErrChan) < eventChanCap
  /\ SocketErrChan' = Append(SocketErrChan, err)
  /\ nEvents' = nEvents + 1
  /\ UNCHANGED <<transmission, timeMs, isNetAvailable, closed, HandshakeStateChan,
                 networkAvailableChan, closeChan, stateChan, stateChanClosed,
                 netAvailable, wasSet, closers, nCloses, lastState, panicked,
                 nTicks, loopVars>>

\* Close: sets closed and starts the goroutine that ends the loop and the channel
Close ==
  /\ ~panicked
  /\ nCloses < MaxCloses
  /\ nCloses' = nCloses + 1
  /\ closed' = TRUE
  /\ closers' = [closers EXCEPT !["closeChan"] = @ + 1]
  /\ UNCHANGED <<transmission, timeMs, isNetAvailable, networkAvailableChan,
                 SocketErrChan, HandshakeStateChan, closeChan, stateChan,
                 stateChanClosed, netAvailable, wasSet, lastState, panicked,
                 nTicks, nEvents, scenarioVars, streamVars, loopVars>>

\* the goroutine of Close: man.closeChan <- true
CloseSendCloseChan ==
  /\ ~panicked
  /\ closers["closeChan"] > 0
  /\ closeChan < closeChanCap
  /\ closeChan' = closeChan + 1
  /\ closers' = [closers EXCEPT !["closeChan"] = @ - 1, !["stateChan"] = @ + 1]
  /\ UNCHANGED <<transmission, timeMs, isNetAvailable, closed, networkAvailableChan,
                 SocketErrChan, HandshakeStateChan, stateChan, stateChanClosed,
                 netAvailable, wasSet, nCloses, lastState, panicked, nTicks,
                 nEvents, scenarioVars, streamVars, loopVars>>

\* the goroutine of Close: man.stateChan <- WireGuardDisabled
CloseSendDisabled ==
  /\ ~panicked
  /\ closers["stateChan"] > 0
  /\ IF stateChanClosed
     THEN /\ panicked' = TRUE
          /\ UNCHANGED <<stateChan, closers>>
     ELSE /\ Len(stateChan) < stateChanCap
          /\ stateChan' = Append(stateChan, [st |-> WireGuardDisabled, id |-> 0])
          /\ closers' = [closers EXCEPT !["stateChan"] = @ - 1, !["close"] = @ + 1]
          /\ UNCHANGED panicked
  /\ UNCHANGED <<transmission, timeMs, isNetAvailable, closed, networkAvailableChan,
                 SocketErrChan, HandshakeStateChan, closeChan, stateChanClosed,
                 netAvailable, wasSet, nCloses, lastState, nTicks, nEvents, scenarioVars, streamVars,
                 loopVars>>

\* the goroutine of Close: close(man.stateChan)
CloseStateChan ==
  /\ ~panicked
  /\ closers["close"] > 0
  /\ IF stateChanClosed
     THEN /\ panicked' = TRUE
          /\ UNCHANGED <<stateChanClosed, closers>>
     ELSE /\ stateChanClosed' = TRUE
          /\ closers' = [closers EXCEPT !["close"] = @ - 1]
          /\ UNCHANGED panicked
  /\ UNCHANGED <<transmission, timeMs, isNetAvailable, closed, networkAvailableChan,
                 SocketErrChan, HandshakeStateChan, closeChan, stateChan,
                 netAvailable, wasSet, nCloses, lastState, nTicks, nEvents, scenarioVars, streamVars,
                 loopVars>>

\* the reader: lastState = manager.GetState()
GetState ==
  /\ ~panicked
  /\ IF stateChan # <<>>
     THEN /\ lastState' = [st |-> Head(stateChan).st,
                            id |-> IF Head(stateChan).id = 0 THEN lastState.id
                                   ELSE Head(stateChan).id]
          /\ stateChan' = Tail(stateChan)
     ELSE /\ stateChanClosed
          /\ lastState' = [lastState EXCEPT !.st = GetStateClosed]
          /\ UNCHANGED stateChan
  /\ UNCHANGED <<transmission, timeMs, isNetAvailable, closed, networkAvailableChan,
                 SocketErrChan, HandshakeStateChan, closeChan, stateChanClosed,
                 netAvailable, wasSet, closers, nCloses, panicked, nTicks,
                 nEvents, scenarioVars, streamVars, loopVars>>

\* the clock of the supervisor scenarios: timeMs += d
AdvanceClock(d) ==
  /\ ~panicked
  /\ timeMs + d <= MaxTime
  /\ timeMs' = timeMs + d
  /\ UNCHANGED <<transmission, isNetAvailable, closed, networkAvailableChan,
                 SocketErrChan, HandshakeStateChan, closeChan, stateChan,
                 stateChanClosed, netAvailable, wasSet, closers, nCloses,
                 lastState, panicked, nTicks, nEvents, scenarioVars, streamVars, loopVars>>

(* ------------------------------------------------------------------ *)
(* The publication goroutines of postState                              *)
(* ------------------------------------------------------------------ *)
postVarsFrame ==
  UNCHANGED <<transmission, timeMs, isNetAvailable, closed, networkAvailableChan,
              SocketErrChan, HandshakeStateChan, closeChan, stateChanClosed,
              netAvailable, wasSet, closers, nCloses, lastState, nTicks,
              nEvents, scenarioVars, streamVars, lastRestart, nextRestartDelay, startedTimestamp, pc,
              retPc, nPosted, isUp, upCount, downCount, devErr, srCalled, srRet>>

\* reads man.closed
PostReadClosed(g) ==
  /\ ~panicked
  /\ g \in posts
  /\ g.at = "closed"
  /\ posts' = IF closed
              THEN posts \ {g}
              ELSE (posts \ {g}) \cup {[g EXCEPT !.at = "net"]}
  /\ UNCHANGED <<stateChan, panicked>>
  /\ postVarsFrame

\* reads man.isNetAvailable
PostReadNet(g) ==
  /\ ~panicked
  /\ g \in posts
  /\ g.at = "net"
  /\ posts' = IF isNetAvailable \/ g.st = WireGuardWaitingForNetwork
              THEN (posts \ {g}) \cup {[g EXCEPT !.at = "send"]}
              ELSE posts \ {g}
  /\ UNCHANGED <<stateChan, panicked>>
  /\ postVarsFrame

\* man.stateChan <- state: waits while the buffer is full, panics once the
\* channel is closed
PostSend(g) ==
  /\ ~panicked
  /\ g \in posts
  /\ g.at = "send"
  /\ IF stateChanClosed
     THEN /\ panicked' = TRUE
          /\ UNCHANGED <<stateChan, posts>>
     ELSE /\ Len(stateChan) < stateChanCap
          /\ stateChan' = Append(stateChan, [st |-> g.st, id |-> g.id])
          /\ posts' = posts \ {g}
          /\ UNCHANGED panicked
  /\ postVarsFrame

(* ------------------------------------------------------------------ *)
(* handlerLoop                                                          *)
(* ------------------------------------------------------------------ *)
loopFrame ==
  UNCHANGED <<transmission, timeMs, closed, stateChan, stateChanClosed, closers,
              nCloses, lastState, panicked, nTicks, nEvents, scenarioVars, streamVars>>

\* case netAvailable := <-man.networkAvailableChan, up to the return of
\* onNetworkAvailabilityChange (or to device.Down() of a restart)
LoopRecvNet ==
  /\ ~panicked
  /\ pc = "select"
  /\ networkAvailableChan # <<>>
  /\ networkAvailableChan' = Tail(networkAvailableChan)
  /\ netAvailable' = Head(networkAvailableChan)
  /\ Apply(onNetworkAvailabilityChange([cur EXCEPT !.pc = "netAssign"], ~wasSet,
                                       Head(networkAvailableChan)))
  /\ UNCHANGED <<isNetAvailable, wasSet, SocketErrChan, HandshakeStateChan, closeChan>>
  /\ loopFrame

\* man.isNetAvailable = netAvailable; wasNetAvailablePtr = &man.isNetAvailable
LoopNetAssign ==
  /\ ~panicked
  /\ pc = "netAssign"
  /\ isNetAvailable' = netAvailable
  /\ wasSet' = TRUE
  /\ pc' = "select"
  /\ UNCHANGED <<networkAvailableChan, netAvailable, SocketErrChan,
                 HandshakeStateChan, closeChan, lastRestart, nextRestartDelay,
                 startedTimestamp, retPc, posts, nPosted, isUp, upCount, downCount,
                 devErr, srCalled, srRet>>
  /\ loopFrame

\* case socketErr := <-man.SocketErrChan
LoopRecvSocketErr ==
  /\ ~panicked
  /\ pc = "select"
  /\ SocketErrChan # <<>>
  /\ SocketErrChan' = Tail(SocketErrChan)
  /\ Apply(IF isNetAvailable THEN handleSocketErr(cur, Head(SocketErrChan)) ELSE cur)
  /\ UNCHANGED <<isNetAvailable, wasSet, netAvailable, networkAvailableChan,
                 HandshakeStateChan, closeChan>>
  /\ loopFrame

\* the handshake case without the test of man.isNetAvailable
LoopRecvHandshake_ungated ==
  /\ ~panicked
  /\ pc = "select"
  /\ HandshakeStateChan # <<>>
  /\ HandshakeStateChan' = Tail(HandshakeStateChan)
  /\ Apply(handleHandshakeState(cur, Head(HandshakeStateChan)))
  /\ UNCHANGED <<isNetAvailable, wasSet, netAvailable, networkAvailableChan,
                 SocketErrChan, closeChan>>
  /\ loopFrame

\* case handshakeState := <-man.HandshakeStateChan
LoopRecvHandshake ==
  /\ ~panicked
  /\ pc = "select"
  /\ HandshakeStateChan # <<>>
  /\ HandshakeStateChan' = Tail(HandshakeStateChan)
  /\ Apply(IF isNetAvailable
           THEN handleHandshakeState(cur, Head(HandshakeStateChan))
           ELSE cur)
  /\ UNCHANGED <<isNetAvailable, wasSet, netAvailable, networkAvailableChan,
                 SocketErrChan, closeChan>>
  /\ loopFrame

\* case <-man.closeChan: return
LoopRecvClose ==
  /\ ~panicked
  /\ pc = "select"
  /\ closeChan > 0
  /\ closeChan' = closeChan - 1
  /\ pc' = "done"
  /\ UNCHANGED <<isNetAvailable, wasSet, netAvailable, networkAvailableChan,
                 SocketErrChan, HandshakeStateChan, lastRestart, nextRestartDelay,
                 startedTimestamp, retPc, posts, nPosted, isUp, upCount, downCount,
                 devErr, srCalled, srRet>>
  /\ loopFrame

\* the rest of maybeRestart: if !man.closed { device.Up() }
LoopRestartUp ==
  /\ ~panicked
  /\ pc = "restartUp"
  /\ Apply([(IF ~closed THEN Up(cur) ELSE cur) EXCEPT !.pc = retPc])
  /\ UNCHANGED <<isNetAvailable, wasSet, netAvailable, networkAvailableChan,
                 SocketErrChan, HandshakeStateChan, closeChan>>
  /\ loopFrame

(* ------------------------------------------------------------------ *)
(* The shouldRestart unit test: the test goroutine moves the clock and  *)
(* calls manager.shouldRestart() itself                                 *)
(* ------------------------------------------------------------------ *)
TestAdvance(d) ==
  /\ nTicks < MaxTicks
  /\ nTicks' = nTicks + 1
  /\ timeMs' = timeMs + d
  /\ UNCHANGED <<transmission, isNetAvailable, closed, networkAvailableChan,
                 SocketErrChan, HandshakeStateChan, closeChan, stateChan,
                 stateChanClosed, netAvailable, wasSet, closers, nCloses,
                 lastState, panicked, nEvents, scenarioVars, streamVars, loopVars>>

ShouldRestartCall ==
  /\ Apply(shouldRestart(cur))
  /\ UNCHANGED <<transmission, timeMs, isNetAvailable, closed, networkAvailableChan,
                 SocketErrChan, HandshakeStateChan, closeChan, stateChan,
                 stateChanClosed, netAvailable, wasSet, closers, nCloses,
                 lastState, panicked, nTicks, nEvents, scenarioVars, streamVars>>

(* ------------------------------------------------------------------ *)
(* Specifications                                                       *)
(* ------------------------------------------------------------------ *)
\* the host posts events at any moment
ClientSetNetworkAvailable(b) ==
  /\ nEvents < MaxEvents
  /\ SetNetworkAvailable(b)
  /\ UNCHANGED <<scenarioVars, streamVars>>

ClientSendHandshakeState(h) ==
  /\ nEvents < MaxEvents
  /\ SendHandshakeState(h)
  /\ UNCHANGED <<scenarioVars, streamVars>>

ClientSendSocketErr(e) ==
  /\ nEvents < MaxEvents
  /\ SendSocketErr(e)
  /\ UNCHANGED <<scenarioVars, streamVars>>

\* the supervisor under every schedule
Next ==
  \/ \E b \in BOOLEAN : ClientSetNetworkAvailable(b)
  \/ \E h \in HandshakeStates : ClientSendHandshakeState(h)
  \/ \E e \in SocketErrs : ClientSendSocketErr(e)
  \/ \E d \in ClockSteps : AdvanceClock(d)
  \/ Close
  \/ CloseSendCloseChan
  \/ CloseSendDisabled
  \/ CloseStateChan
  \/ GetState
  \/ \E g \in posts : PostReadClosed(g)
  \/ \E g \in posts : PostReadNet(g)
  \/ \E g \in posts : PostSend(g)
  \/ LoopRecvNet
  \/ LoopNetAssign
  \/ LoopRecvSocketErr
  \/ LoopRecvHandshake
  \/ LoopRecvClose
  \/ LoopRestartUp

Spec == Init /\ [][Next]_vars

\* the unit tests' client: it posts an event, moves the clock or calls Close
\* only once the supervisor has gone idle (the tests sleep after every event
\* "to make sure goroutines finish"), and remembers what it posted
ScenarioSetNetworkAvailable(b) ==
  /\ Quiescent
  /\ nEvents < MaxScenarioEvents
  /\ SetNetworkAvailable(b)
  /\ lastEvent' = <<"net", IF b THEN "true" ELSE "false">>
  /\ netHist' = Append(netHist, b)
  /\ netTimes' = Append(netTimes, timeMs)
  /\ UNCHANGED streamVars

ScenarioSendHandshakeState(h) ==
  /\ Quiescent
  /\ nEvents < MaxScenarioEvents
  /\ SendHandshakeState(h)
  /\ lastEvent' = <<"handshake", h>>
  /\ UNCHANGED <<netHist, netTimes, streamVars>>

ScenarioSendSocketErr(e) ==
  /\ Quiescent
  /\ nEvents < MaxScenarioEvents
  /\ SendSocketErr(e)
  /\ lastEvent' = <<"socketErr">> \o e
  /\ UNCHANGED <<netHist, netTimes, streamVars>>

ScenarioAdvanceClock(d) ==
  /\ Quiescent
  /\ AdvanceClock(d)

\* setdown(), once the test's assertions are done
ScenarioClose ==
  /\ Quiescent
  /\ Close

NextScenario ==
  \/ \E b \in BOOLEAN : ScenarioSetNetworkAvailable(b)
  \/ \E h \in HandshakeStates : ScenarioSendHandshakeState(h)
  \/ \E e \in SocketErrs : ScenarioSendSocketErr(e)
  \/ \E d \in ClockSteps : ScenarioAdvanceClock(d)
  \/ ScenarioClose
  \/ CloseSendCloseChan
  \/ CloseSendDisabled
  \/ CloseStateChan
  \/ GetState
  \/ \E g \in posts : PostReadClosed(g)
  \/ \E g \in posts : PostReadNet(g)
  \/ \E g \in posts : PostSend(g)
  \/ LoopRecvNet
  \/ LoopNetAssign
  \/ LoopRecvSocketErr
  \/ LoopRecvHandshake
  \/ LoopRecvClose
  \/ LoopRestartUp

SpecScenario == Init /\ [][NextScenario]_vars

NextBackoff ==
  \/ \E d \in TestClockSteps : TestAdvance(d)
  \/ ShouldRestartCall

SpecBackoff == Init /\ [][NextBackoff]_vars

(* ------------------------------------------------------------------ *)
(* The codec in a loop: every frame it emits is decoded by a codec state *)
(* created at the same time (the mirror)                                *)
(* ------------------------------------------------------------------ *)
\* the caller fills its buffer b with wgPacket and the frame is written
Encode(b, wgPacket) ==
  /\ nEncoded < MaxFrames
  /\ Len(inFlight) < MaxInFlight
  /\ ~lastDecoded.panic
  /\ LET mem == [bufs EXCEPT ![b] = Fill(@, wgPacket)]
         r == wgToTunSafe(tunsafe, mem, b, wgPacket)
     IN /\ bufs' = mem
        /\ wgSendPrefix' = r.tunSafe.wgSendPrefix
        /\ wgSendCount' = r.tunSafe.wgSendCount
        /\ wire' = wire \o r.frame
        /\ lastFrame' = r.frame
        /\ nElided' = IF /\ Len(wgPacket) >= wgDataHeaderSize
                         /\ r.frame = wgToTunSafeData(wgPacket)
                      THEN nElided + 1 ELSE nElided
  /\ inFlight' = Append(inFlight, wgPacket)
  /\ lastSent' = wgPacket
  /\ nEncoded' = nEncoded + 1
  /\ UNCHANGED <<wgRecvPrefix, wgRecvCount, lastDecoded, nDecoded>>
  /\ UNCHANGED <<managerVars, bindVars>>

\* the mirror reads the next frame: parseTunSafeHeader, prepareWgPacket,
\* the payload, onRecvPacket
Decode ==
  /\ ~lastDecoded.panic
  /\ inFlight # <<>>
  /\ CanReadNextPacket(wire)
  /\ LET r == readNextPacket(tunsafe, wire)
     IN /\ wgRecvPrefix' = r.tunSafe.wgRecvPrefix
        /\ wgRecvCount' = r.tunSafe.wgRecvCount
        /\ wire' = r.conn
        /\ lastDecoded' = [err |-> r.err, panic |-> r.panic, wgPacket |-> r.wgPacket,
                           of |-> Head(inFlight), n |-> nDecoded + 1]
  /\ nDecoded' = nDecoded + 1
  /\ inFlight' = Tail(inFlight)
  /\ UNCHANGED <<bufs, wgSendPrefix, wgSendCount, lastSent, lastFrame, nEncoded,
                 nElided>>
  /\ UNCHANGED <<managerVars, bindVars>>

NextCodec ==
  \/ \E b \in Buffers : \E wgPacket \in Datagrams : Encode(b, wgPacket)
  \/ Decode

SpecCodec == Init /\ [][NextCodec]_vars

\* the codec given datagrams whose length does not fit the 14 bits of the
\* header's length field
LongDatagrams ==
  LET LongBody == Zeros(2 ^ 14)
  IN {H(DataPrefixP, U64(c), <<c>>) : c \in {1, 2}}
       \cup {H(DataPrefixP, U64(c), LongBody) : c \in {1, 2}}
       \cup {H(HandshakePrefix, U64(2), LongBody), <<1, 2, 3>>}

NextCodecLong ==
  \/ \E wgPacket \in LongDatagrams : Encode(1, wgPacket)
  \/ Decode

SpecCodecLong == Init /\ [][NextCodecLong]_vars

(* ------------------------------------------------------------------ *)
(* The bind under the device: Open and Close from the device, Send and  *)
(* the receive function each from a goroutine of its own, the peer      *)
(* writing frames                                                       *)
(* ------------------------------------------------------------------ *)
BindRunning == transmission # "udp" /\ receiver.pc # "panic"

ApplyBind(st) ==
  /\ bind' = st.bind
  /\ conns' = st.conns
  /\ errorChan' = st.errorChan
  /\ wgSendPrefix' = st.tunSafe.wgSendPrefix
  /\ wgSendCount' = st.tunSafe.wgSendCount
  /\ wgRecvPrefix' = st.tunSafe.wgRecvPrefix
  /\ wgRecvCount' = st.tunSafe.wgRecvCount

bindFrame ==
  /\ UNCHANGED <<wire, inFlight, lastSent, lastFrame, lastDecoded, nEncoded,
                 nElided, nDecoded>>
  /\ UNCHANGED managerVars

\* Open: with bind.mu held
BindOpen ==
  /\ BindRunning
  /\ bind.mu = Unlocked
  /\ calls.Open < MaxOpens
  /\ calls' = [calls EXCEPT !.Open = @ + 1]
  /\ bind' = [bind EXCEPT !.closed = FALSE]
  /\ bindLog' = [bindLog EXCEPT !.opened = TRUE, !.latched = FALSE,
                                !.openRet = NilErr]
  /\ UNCHANGED <<conns, errorChan, sender, receiver, bufs, wgSendPrefix,
                 wgSendCount, wgRecvPrefix, wgRecvCount>>
  /\ bindFrame

\* Close: with bind.mu held
BindClose ==
  /\ BindRunning
  /\ bind.mu = Unlocked
  /\ calls.Close < MaxBindCloses
  /\ calls' = [calls EXCEPT !.Close = @ + 1]
  /\ ApplyBind(StdNetBindTcpClose(bindState))
  /\ bindLog' = [bindLog EXCEPT !.opened = FALSE]
  /\ UNCHANGED <<sender, receiver, bufs>>
  /\ bindFrame

\* the goroutine s calls Send(buff, endpoint), the packet being in the caller's
\* buffer b: getConn locks bind.mu and returns at once, or starts to dial or
\* to shake hands with bind.mu held
SendGetConn(s, b, wgPacket) ==
  /\ BindRunning
  /\ calls.Open > 0
  /\ sender[s].pc = "idle"
  /\ sender[s].calls < MaxSendCalls
  /\ bind.mu = Unlocked
  /\ calls' = [calls EXCEPT !.Send = @ + 1]
  /\ bufs' = [bufs EXCEPT ![b] = Fill(@, wgPacket)]
  /\ LET r == getConn(bindState, TRUE, TRUE)
         me == [sender[s] EXCEPT !.calls = @ + 1, !.buff = b, !.wgPacket = wgPacket]
     IN IF Blocks(bindState)
        THEN /\ bind' = [bind EXCEPT !.mu = s]
             /\ sender' = [sender EXCEPT ![s] = [me EXCEPT !.pc = "dial"]]
        ELSE /\ UNCHANGED bind
             /\ sender' = [sender EXCEPT ![s] =
                  IF r.err # NilErr
                  THEN [me EXCEPT !.ret = r.err]
                  ELSE [me EXCEPT !.pc = "encode", !.conn = r.conn]]
  /\ UNCHANGED <<conns, errorChan, receiver, bindLog, wgSendPrefix, wgSendCount,
                 wgRecvPrefix, wgRecvCount>>
  /\ bindFrame

\* dialTcp and the TLS handshake return, getConn unlocks bind.mu and returns
SendDial(s, dialOk, tlsOk) ==
  /\ BindRunning
  /\ sender[s].pc = "dial"
  /\ LET r == getConn(bindState, dialOk, tlsOk)
     IN /\ ApplyBind([r.st EXCEPT !.bind.mu = Unlocked])
        /\ bindLog' = [bindLog EXCEPT
             !.dials = r.st.dials,
             !.latched = @ \/ r.err \notin {NilErr, ErrClosed}]
        /\ sender' = [sender EXCEPT ![s] =
             IF r.err # NilErr
             THEN [@ EXCEPT !.pc = "idle", !.ret = r.err]
             ELSE [@ EXCEPT !.pc = "encode", !.conn = r.conn]]
  /\ UNCHANGED <<receiver, calls, bufs>>
  /\ bindFrame

\* tunSafePacket := bind.tunsafe.wgToTunSafe(buff), without bind.mu
SendEncode(s) ==
  /\ BindRunning
  /\ sender[s].pc = "encode"
  /\ LET r == wgToTunSafe(tunsafe, bufs, sender[s].buff, sender[s].wgPacket)
     IN /\ wgSendPrefix' = r.tunSafe.wgSendPrefix
        /\ wgSendCount' = r.tunSafe.wgSendCount
        /\ sender' = [sender EXCEPT ![s] =
             [@ EXCEPT !.pc = "write", !.frame = r.frame,
                       !.seq = bindLog.encoded + 1]]
  /\ bindLog' = [bindLog EXCEPT !.encoded = @ + 1]
  /\ UNCHANGED <<bind, conns, errorChan, receiver, calls, bufs, wgRecvPrefix,
                 wgRecvCount>>
  /\ bindFrame

\* conn.Write(tunSafePacket): it fails with net.ErrClosed on a connection that
\* was closed here, and may fail with a transport error
SendWrite(s, writeErr) ==
  /\ BindRunning
  /\ sender[s].pc = "write"
  /\ LET err == IF conns[sender[s].conn].closed THEN ErrClosed ELSE writeErr
     IN /\ conns' = IF err = NilErr
                    THEN [conns EXCEPT ![sender[s].conn].tx = @ \o sender[s].frame]
                    ELSE conns
        /\ bindLog' = IF err = NilErr
                      THEN [bindLog EXCEPT !.written =
                              Append(@, [conn |-> sender[s].conn,
                                         seq |-> sender[s].seq])]
                      ELSE bindLog
        /\ sender' = [sender EXCEPT ![s] =
             IF err = NilErr
             THEN [@ EXCEPT !.pc = "idle", !.ret = NilErr, !.frame = <<>>]
             ELSE [@ EXCEPT !.pc = "onSocketError", !.err = err, !.frame = <<>>]]
  /\ UNCHANGED <<bind, errorChan, receiver, calls, bufs, wgSendPrefix,
                 wgSendCount, wgRecvPrefix, wgRecvCount>>
  /\ bindFrame

\* bind.onSocketError(err) of Send, then return err
SendOnSocketError(s) ==
  /\ BindRunning
  /\ sender[s].pc = "onSocketError"
  /\ ApplyBind(onSocketError(bindState, sender[s].err))
  /\ sender' = [sender EXCEPT ![s] = [@ EXCEPT !.pc = "idle", !.ret = sender[s].err]]
  /\ UNCHANGED <<receiver, bindLog, calls, bufs>>
  /\ bindFrame

\* the receive function with len(buff) = n: it returns bytes of currentPacket
\* when some are left; otherwise getConn locks bind.mu and returns at once, or
\* starts to dial or to shake hands with bind.mu held
ReceiveCall(n) ==
  /\ BindRunning
  /\ calls.Open > 0
  /\ receiver.pc = "idle"
  /\ calls.receive < MaxReceiveCalls
  /\ calls' = [calls EXCEPT !.receive = @ + 1]
  /\ IF bind.currentPacket # <<>>
     THEN LET rd == ReadCurrentPacket(bind.currentPacket, n)
          IN /\ bind' = [bind EXCEPT !.currentPacket = rd.rest]
             /\ receiver' = [receiver EXCEPT !.len = n,
                  !.ret = [n |-> rd.n, err |-> rd.err, bytes |-> rd.bytes]]
     ELSE LET r == getConn(bindState, TRUE, TRUE)
          IN /\ bind.mu = Unlocked
             /\ IF Blocks(bindState)
                THEN /\ bind' = [bind EXCEPT !.mu = Receiver]
                     /\ receiver' = [receiver EXCEPT !.pc = "dial", !.len = n]
                ELSE /\ UNCHANGED bind
                     /\ receiver' =
                          IF r.err # NilErr
                          THEN [receiver EXCEPT !.len = n,
                                  !.ret = [n |-> 0, err |-> r.err, bytes |-> <<>>]]
                          ELSE [receiver EXCEPT !.pc = "read", !.conn = r.conn,
                                                !.len = n]
  /\ UNCHANGED <<conns, errorChan, bindLog, sender, bufs, wgSendPrefix,
                 wgSendCount, wgRecvPrefix, wgRecvCount>>
  /\ bindFrame

\* dialTcp and the TLS handshake return, getConn unlocks bind.mu and returns
ReceiveDial(dialOk, tlsOk) ==
  /\ BindRunning
  /\ receiver.pc = "dial"
  /\ LET r == getConn(bindState, dialOk, tlsOk)
     IN /\ ApplyBind([r.st EXCEPT !.bind.mu = Unlocked])
        /\ bindLog' = [bindLog EXCEPT
             !.dials = r.st.dials,
             !.latched = @ \/ r.err \notin {NilErr, ErrClosed}]
        /\ receiver' = IF r.err # NilErr
                       THEN [receiver EXCEPT !.pc = "idle",
                               !.ret = [n |-> 0, err |-> r.err, bytes |-> <<>>]]
                       ELSE [receiver EXCEPT !.pc = "read", !.conn = r.conn]
  /\ UNCHANGED <<sender, calls, bufs>>
  /\ bindFrame

\* readNextPacket(conn) returns and, when it succeeds, currentPacket.Read(buff)
ReceiveRead ==
  /\ BindRunning
  /\ receiver.pc = "read"
  /\ ~conns[receiver.conn].closed
  /\ CanReadNextPacket(conns[receiver.conn].rx)
  /\ LET r == readNextPacket(tunsafe, conns[receiver.conn].rx)
         rd == ReadCurrentPacket(r.wgPacket, receiver.len)
     IN /\ conns' = [conns EXCEPT ![receiver.conn].rx = r.conn]
        /\ wgRecvPrefix' = r.tunSafe.wgRecvPrefix
        /\ wgRecvCount' = r.tunSafe.wgRecvCount
        /\ bindLog' = IF r.err THEN [bindLog EXCEPT !.aborted = @ \cup {receiver.conn}]
                      ELSE bindLog
        /\ IF r.err
           THEN /\ receiver' = [receiver EXCEPT !.pc = "onSocketError",
                                                !.err = ErrUnknownType]
                /\ UNCHANGED bind
           ELSE IF r.panic
           THEN /\ receiver' = [receiver EXCEPT !.pc = "panic"]
                /\ UNCHANGED bind
           ELSE /\ bind' = [bind EXCEPT !.currentPacket = rd.rest]
                /\ receiver' = [receiver EXCEPT !.pc = "idle",
                     !.ret = [n |-> rd.n, err |-> rd.err, bytes |-> rd.bytes]]
  /\ UNCHANGED <<errorChan, sender, calls, bufs, wgSendPrefix, wgSendCount>>
  /\ bindFrame

\* io.ReadFull fails: with net.ErrClosed once the connection was closed here
\* (the receive function returns it), or with a transport error
ReceiveReadFails(readErr) ==
  /\ BindRunning
  /\ receiver.pc = "read"
  /\ receiver' = IF conns[receiver.conn].closed
                 THEN [receiver EXCEPT !.pc = "idle",
                         !.ret = [n |-> 0, err |-> ErrClosed, bytes |-> <<>>]]
                 ELSE [receiver EXCEPT !.pc = "onSocketError", !.err = readErr]
  /\ UNCHANGED <<bind, conns, errorChan, sender, bindLog, calls, bufs,
                 wgSendPrefix, wgSendCount, wgRecvPrefix, wgRecvCount>>
  /\ bindFrame

\* bind.onSocketError(err) of the receive function, then return err
ReceiveOnSocketError ==
  /\ BindRunning
  /\ receiver.pc = "onSocketError"
  /\ ApplyBind(onSocketError(bindState, receiver.err))
  /\ receiver' = [receiver EXCEPT !.pc = "idle",
                    !.ret = [n |-> 0, err |-> receiver.err, bytes |-> <<>>]]
  /\ UNCHANGED <<sender, bindLog, calls, bufs>>
  /\ bindFrame

\* the peer writes a frame on the connection c
PeerWrite(c, frame) ==
  /\ BindRunning
  /\ calls.peer < MaxPeerWrites
  /\ ~conns[c].closed
  /\ calls' = [calls EXCEPT !.peer = @ + 1]
  /\ conns' = [conns EXCEPT ![c].rx = @ \o frame]
  /\ UNCHANGED <<bind, errorChan, sender, receiver, bindLog, bufs, wgSendPrefix,
                 wgSendCount, wgRecvPrefix, wgRecvCount>>
  /\ bindFrame

\* the device: one goroutine sends, one receives
NextBind ==
  \/ BindOpen
  \/ BindClose
  \/ \E b \in Buffers : \E wgPacket \in BindDatagrams : SendGetConn(1, b, wgPacket)
  \/ \E dialOk \in BOOLEAN : \E tlsOk \in BOOLEAN : SendDial(1, dialOk, tlsOk)
  \/ SendEncode(1)
  \/ \E writeErr \in {NilErr, ErrBrokenPipe} : SendWrite(1, writeErr)
  \/ SendOnSocketError(1)
  \/ \E n \in BuffSizes : ReceiveCall(n)
  \/ \E dialOk \in BOOLEAN : \E tlsOk \in BOOLEAN : ReceiveDial(dialOk, tlsOk)
  \/ ReceiveRead
  \/ \E readErr \in {ErrConnReset} : ReceiveReadFails(readErr)
  \/ ReceiveOnSocketError
  \/ \E c \in DOMAIN conns : \E frame \in PeerFrames : PeerWrite(c, frame)

SpecBind == Init /\ [][NextBind]_vars

\* the device's senders: the goroutines of Senders call Send concurrently,
\* each with a buffer of its own
NextSenders ==
  \/ BindOpen
  \/ BindClose
  \/ \E s \in Senders : \E wgPacket \in BindDatagrams : SendGetConn(s, s, wgPacket)
  \/ \E s \in Senders : \E dialOk \in BOOLEAN : \E tlsOk \in BOOLEAN :
       SendDial(s, dialOk, tlsOk)
  \/ \E s \in Senders : SendEncode(s)
  \/ \E s \in Senders : \E writeErr \in {NilErr, ErrBrokenPipe} : SendWrite(s, writeErr)
  \/ \E s \in Senders : SendOnSocketError(s)

SpecSenders == Init /\ [][NextSenders]_vars

\* the device restarting the bind: Open and Close while one goroutine sends
\* a data datagram and one receives the data datagram the peer writes
NextRestart ==
  \/ BindOpen
  \/ BindClose
  \/ SendGetConn(1, 1, H(DataPrefixP, U64(1), <<1>>))
  \/ \E dialOk \in BOOLEAN : \E tlsOk \in BOOLEAN : SendDial(1, dialOk, tlsOk)
  \/ SendEncode(1)
  \/ SendWrite(1, NilErr)
  \/ SendOnSocketError(1)
  \/ ReceiveCall(64)
  \/ \E dialOk \in BOOLEAN : \E tlsOk \in BOOLEAN : ReceiveDial(dialOk, tlsOk)
  \/ ReceiveRead
  \/ ReceiveReadFails(ErrConnReset)
  \/ ReceiveOnSocketError
  \/ \E c \in DOMAIN conns :
       PeerWrite(c, wgToTunSafeNormal(H(DataPrefixQ, U64(1), <<1>>)))

SpecRestart == Init /\ [][NextRestart]_vars

(* ------------------------------------------------------------------ *)
(* Restart policy (checked under SpecBackoff)                           *)
(* ------------------------------------------------------------------ *)

\* C1: shouldRestart returns true iff now > lastRestart + nextRestartDelay
\* (strictly).  From a manager created at t = 0 it returns false at 0 and
\* 4000 ms, true at 4001 ms (nextRestartDelay becomes 8 s), false at 4001 and
\* 12001 ms and true at 12002 ms.  When it returns true lastRestart becomes
\* now; when it returns false lastRestart and nextRestartDelay keep their
\* values.
C1_ShouldRestartStrict ==
  [][ShouldRestartCall =>
       /\ srRet' = (timeMs > lastRestart + nextRestartDelay)
       /\ (srRet' => lastRestart' = timeMs)
       /\ (~srRet' => lastRestart' = lastRestart
                      /\ nextRestartDelay' = nextRestartDelay)
       /\ (lastRestart = 0 /\ nextRestartDelay = 4000 /\ timeMs \in {0, 4000}
             => ~srRet')
       /\ (lastRestart = 0 /\ nextRestartDelay = 4000 /\ timeMs = 4001
             => srRet' /\ nextRestartDelay' = 8000)
       /\ (lastRestart = 4001 /\ nextRestartDelay = 8000 /\ timeMs \in {4001, 12001}
             => ~srRet')
       /\ (lastRestart = 4001 /\ nextRestartDelay = 8000 /\ timeMs = 12002
             => srRet')]_vars

\* the second permitted restart of the test: at 12002 ms, 8 s after the first
C1_Witness ==
  /\ timeMs = 12002
  /\ lastRestart = 12002
  /\ nextRestartDelay = 16000
  /\ srRet

\* C2: nextRestartDelay is always one of 4 s, 8 s, 16 s, 32 s, and a permitted
\* restart that is not a reset takes it from 4 s to 8 s, 8 s to 16 s, 16 s to
\* 32 s and leaves it at 32 s: it doubles, capped at maxRestartDelay, and
\* never decreases.
C2_BackoffBounded ==
  /\ [](nextRestartDelay \in {4000, 8000, 16000, 32000})
  /\ [][(/\ ShouldRestartCall
         /\ srRet'
         /\ ~(timeMs > lastRestart + resetRestartDelay))
        => /\ nextRestartDelay' >= nextRestartDelay
           /\ nextRestartDelay' <= maxRestartDelay
           /\ (nextRestartDelay = 4000 => nextRestartDelay' = 8000)
           /\ (nextRestartDelay = 8000 => nextRestartDelay' = 16000)
           /\ (nextRestartDelay = 16000 => nextRestartDelay' = 32000)
           /\ (nextRestartDelay = 32000 => nextRestartDelay' = 32000)]_vars

\* a restart permitted no earlier than the fourth in a row can be, with the
\* delay at its cap
C2_Witness ==
  /\ srRet
  /\ nextRestartDelay = maxRestartDelay
  /\ lastRestart = timeMs
  /\ timeMs >= 60004

\* C3 as stated: once at least 10 minutes (>= resetRestartDelay) have passed
\* since lastRestart, the next permitted restart sets nextRestartDelay to
\* initialRestartDelay.
C3_ResetAtTenMinutes ==
  [][(/\ ShouldRestartCall
      /\ srRet'
      /\ timeMs >= lastRestart + resetRestartDelay)
     => nextRestartDelay' = initialRestartDelay]_vars

\* C3 as amended: once more than 10 minutes (> resetRestartDelay) have passed
\* since lastRestart, the next call of shouldRestart permits the restart and
\* sets nextRestartDelay to initialRestartDelay, whatever it was; at exactly
\* 10 minutes the restart is permitted and the delay doubles as usual.
C3_ResetAfterTenMinutes ==
  [][ShouldRestartCall =>
       /\ (timeMs > lastRestart + resetRestartDelay
             => /\ srRet'
                /\ nextRestartDelay' = initialRestartDelay
                /\ lastRestart' = timeMs)
       /\ (timeMs = lastRestart + resetRestartDelay
             => /\ srRet'
                /\ nextRestartDelay' =
                     (IF nextRestartDelay = maxRestartDelay
                      THEN maxRestartDelay ELSE 2 * nextRestartDelay))]_vars

\* the end of the test: two restarts (delay 16 s), then 10 min + 1 ms of quiet
C3_Witness ==
  /\ srRet
  /\ lastRestart = 612003
  /\ timeMs = 612003
  /\ nextRestartDelay = initialRestartDelay

(* ------------------------------------------------------------------ *)
(* The supervisor's scenarios (checked under SpecScenario)              *)
(* ------------------------------------------------------------------ *)
\* the goroutines that a step of the loop has started
Started == {g.st : g \in posts' \ posts}
IsRestartErr(e) == Contains(e, "broken pipe") \/ Contains(e, "connection reset by peer")
DeviceUntouched == UNCHANGED <<isUp, upCount, downCount>>

\* C4: when the first network event is SetNetworkAvailable(true) and a reader
\* keeps calling GetState, the device ends up Up and the last state delivered
\* is Connecting; when SetNetworkAvailable(false) follows, the last state
\* delivered is WaitingForNetwork and the device ends up Down; and this for
\* every interleaving of the loop with its publication goroutines.
C4_NetworkStartsAndStopsDevice ==
  (Quiescent /\ ~closed) =>
     /\ (netHist = <<TRUE>> /\ lastEvent = <<"net", "true">>
           => isUp /\ lastState.st = WireGuardConnecting)
     /\ (netHist = <<TRUE, FALSE>> /\ lastEvent = <<"net", "false">>
           => ~isUp /\ lastState.st = WireGuardWaitingForNetwork)

\* C5: with the network available on tcp/tls, a HandshakeFail publishes Error;
\* if the backoff does not permit a restart there is no device action and
\* Error is the last state delivered; if it permits, the device goes Down
\* then Up (one more Up) and Connecting is the last state delivered.
C5_HandshakeFailCausesRestart ==
  (/\ Quiescent
   /\ ~closed
   /\ isNetAvailable
   /\ transmission # "udp"
   /\ lastEvent = <<"handshake", "HandshakeFail">>)
  => IF srRet
     THEN isUp /\ lastState.st = WireGuardConnecting
     ELSE isUp /\ lastState.st = WireGuardError

\* C6: with the network available on tcp/tls, a socket error whose message
\* contains "broken pipe" or "connection reset by peer" goes to maybeRestart:
\* when the backoff permits, Connecting is published and is what the reader
\* gets, and the device goes Down and then Up (one more Up); any other socket
\* error changes neither the device nor the restart state and publishes
\* nothing.
C6_SocketErrHandling ==
  /\ [][LoopRecvSocketErr =>
          LET e == Head(SocketErrChan)
              restarts == /\ isNetAvailable
                          /\ transmission # "udp"
                          /\ e # NilErr
                          /\ IsRestartErr(e)
                          /\ timeMs > lastRestart + nextRestartDelay
              ignored == e = NilErr \/ ~IsRestartErr(e)
          IN /\ restarts => /\ Started = {WireGuardConnecting}
                            /\ ~isUp'
                            /\ downCount' = downCount + 1
                            /\ upCount' = upCount
                            /\ pc' = "restartUp"
             /\ ignored => /\ DeviceUntouched
                           /\ UNCHANGED <<posts, nPosted, stateChan, lastRestart,
                                          nextRestartDelay, pc>>]_vars
  /\ [][LoopRestartUp /\ ~closed
          => isUp' /\ upCount' = upCount + 1 /\ downCount' = downCount]_vars
  /\ [](/\ Quiescent
        /\ ~closed
        /\ isNetAvailable
        /\ transmission # "udp"
        /\ lastEvent \in {<<"socketErr">> \o ErrBrokenPipe, <<"socketErr">> \o ErrConnReset}
        /\ srRet
        => isUp /\ lastState.st = WireGuardConnecting)

\* the end of the broken-pipe test: the device was brought up twice and the
\* reader holds Connecting
C6_Witness ==
  /\ Quiescent
  /\ ~closed
  /\ transmission = "tcp"
  /\ lastEvent = <<"socketErr">> \o ErrBrokenPipe
  /\ srRet
  /\ lastRestart = 4001
  /\ upCount = 2
  /\ downCount = 1
  /\ isUp
  /\ lastState.st = WireGuardConnecting

\* C7: with the network available, HandshakeInit publishes Connecting and
\* HandshakeSuccess publishes Connected and neither touches the device: once
\* the supervisor is idle again the reader holds that state and the device
\* is still up.
C7_HappyHandshake ==
  /\ [][LoopRecvHandshake /\ Head(HandshakeStateChan) # "HandshakeFail"
          => /\ DeviceUntouched
             /\ UNCHANGED <<lastRestart, nextRestartDelay, pc>>
             /\ (isNetAvailable /\ Head(HandshakeStateChan) = "HandshakeInit"
                   => Started = {WireGuardConnecting})
             /\ (isNetAvailable /\ Head(HandshakeStateChan) = "HandshakeSuccess"
                   => Started = {WireGuardConnected})]_vars
  /\ [](Quiescent /\ ~closed /\ isNetAvailable
        => /\ (lastEvent = <<"handshake", "HandshakeSuccess">>
                 => isUp /\ lastState.st = WireGuardConnected)
           /\ (lastEvent = <<"handshake", "HandshakeInit">>
                 => isUp /\ lastState.st = WireGuardConnecting))

\* the end of the happy-path test
C7_Witness ==
  /\ Quiescent
  /\ ~closed
  /\ netHist = <<TRUE>>
  /\ lastEvent = <<"handshake", "HandshakeSuccess">>
  /\ nEvents = 2
  /\ isUp
  /\ upCount = 1
  /\ lastState.st = WireGuardConnected

(* ------------------------------------------------------------------ *)
(* The supervisor under every schedule (checked under Spec)             *)
(* ------------------------------------------------------------------ *)

\* C8: with transmission = "udp" shouldRestart is never called, lastRestart
\* and nextRestartDelay keep their initial values, the loop never enters the
\* Down/Up cycle of a restart, and no handshake event, socket error or
\* repeated network-available event touches the device.
C8_NoRestartUnderUdp ==
  /\ [](transmission = "udp"
          => /\ ~srCalled
             /\ lastRestart = 0
             /\ nextRestartDelay = initialRestartDelay
             /\ pc # "restartUp")
  /\ [][(/\ transmission = "udp"
         /\ \/ LoopRecvHandshake
            \/ LoopRecvSocketErr
            \/ LoopRestartUp
            \/ (LoopRecvNet /\ wasSet /\ isNetAvailable /\ Head(networkAvailableChan)))
        => DeviceUntouched]_vars

\* under udp a HandshakeFail was handled (Error reached the reader) with the
\* network up since a time at which the backoff would permit a restart
C8_Witness ==
  /\ transmission = "udp"
  /\ startedTimestamp > initialRestartDelay
  /\ isNetAvailable
  /\ lastState.st = WireGuardError
  /\ upCount = 1
  /\ downCount = 0

\* C9: while man.isNetAvailable is false (also before any network event), a
\* handshake or socket-error event starts no publication, calls neither Up nor
\* Down and leaves lastRestart and nextRestartDelay alone.
C9_NetworkGatedEvents ==
  [][(~isNetAvailable /\ (LoopRecvHandshake \/ LoopRecvSocketErr))
     => /\ DeviceUntouched
        /\ UNCHANGED <<posts, nPosted, stateChan, lastRestart, nextRestartDelay,
                       srCalled, pc>>]_vars

\* two handshake or socket-error events were handled after the network had
\* gone (the reader holds WaitingForNetwork) or before any network event, at
\* a time at which the backoff would permit a restart
C9_Witness ==
  /\ ~isNetAvailable
  /\ pc = "select"
  /\ networkAvailableChan = <<>>
  /\ SocketErrChan = <<>>
  /\ HandshakeStateChan = <<>>
  /\ ~wasSet
  /\ nEvents = 2
  /\ nPosted = 0
  /\ ~srCalled

\* C10: after Close the state channel delivers one final Disabled and is then
\* closed; every GetState call after that (on the closed, drained channel)
\* returns WireGuardDisabled.
C10_GetStateAfterClose ==
  [][GetState /\ stateChanClosed /\ stateChan = <<>>
       => lastState'.st = WireGuardDisabled]_vars

(* ------------------------------------------------------------------ *)
(* Network change detection (checked under SpecScenario)                *)
(* ------------------------------------------------------------------ *)
\* the position in netHist of the call that last brought the device up: the
\* latest SetNetworkAvailable(true) before position n that was the first
\* network event or followed a SetNetworkAvailable(false)
LastBroughtUp(n) ==
  CHOOSE j \in 1..(n - 1) :
    /\ netHist[j]
    /\ (j = 1 \/ ~netHist[j - 1])
    /\ \A k \in (j + 1)..(n - 1) : netHist[k]

\* C11: on tcp/tls, when the loop handles a SetNetworkAvailable(true) that
\* directly follows another SetNetworkAvailable(true), more than 5 s after the
\* call that last brought the device up, it invokes maybeRestart (the device
\* goes Down and lastRestart is set when the backoff permits); within 5 s the
\* device is not touched.  For every history of network events before.
C11_NetworkChangeRestarts ==
  [][(/\ LoopRecvNet
      /\ transmission # "udp"
      /\ Len(netHist) >= 2
      /\ netHist[Len(netHist)]
      /\ netHist[Len(netHist) - 1])
     => LET n == Len(netHist)
            upAt == netTimes[LastBroughtUp(n)]
        IN IF After(timeNow, upAt + networkChangeGrace)
           THEN /\ srCalled'
                /\ After(timeNow, lastRestart + nextRestartDelay)
                   => /\ lastRestart' = timeNow
                      /\ downCount' = downCount + 1
                      /\ pc' = "restartUp"
           ELSE DeviceUntouched]_vars

(* ------------------------------------------------------------------ *)
(* The framing codec (checked under SpecCodec)                          *)
(* ------------------------------------------------------------------ *)
\* the Normal frame of a datagram: type bits 00, 14-bit length, the datagram
NormalFrameOf(wgPacket) ==
  <<Len(wgPacket) \div 256, Len(wgPacket) % 256>> \o wgPacket
\* its Data-elided frame: type bits 10, the length less 16, the bytes from 16 on
ElidedFrameOf(wgPacket) ==
  <<128 + (Len(wgPacket) - 16) \div 256, (Len(wgPacket) - 16) % 256>>
    \o SubSeq(wgPacket, 17, Len(wgPacket))

\* C12: a datagram P of at most 16383 bytes encoded by a freshly created codec
\* is sent as a Normal frame (type bits 00, length len(P), then P verbatim),
\* and decoding that frame with a freshly created codec yields exactly P.
C12_RoundTripNormal ==
  /\ (nEncoded = 1 /\ Len(lastSent) <= 16383) => lastFrame = NormalFrameOf(lastSent)
  /\ (lastDecoded.n = 1 /\ Len(lastDecoded.of) <= 16383)
       => /\ ~lastDecoded.err
          /\ ~lastDecoded.panic
          /\ lastDecoded.wgPacket = lastDecoded.of

\* sender and mirror are primed by the same Data-tagged datagram: both hold its
\* prefix, the sender its counter c and the mirror c + 1, and nothing is in
\* flight
Primed ==
  /\ wire = <<>>
  /\ HasPrefix(wgRecvPrefix, wgDataPrefix)
  /\ SendPrefixBytes(bufs, wgSendPrefix) = wgRecvPrefix
  /\ wgRecvCount = AddOne(wgSendCount)

\* the datagram in flight is Data-tagged and continues the mirror's prefix
\* and counter
InOrder(wgPacket) ==
  /\ Len(wgPacket) >= 16
  /\ IsData(wgPacket)
  /\ PrefixOf(wgPacket) = wgRecvPrefix
  /\ CounterOf(wgPacket) = wgRecvCount

\* C13: once sender and mirror have been primed by the same Normal-framed
\* Data-tagged datagram (prefix p, counter c), a following Data-tagged datagram
\* P with prefix p and counter sendCount + 1 is sent Data-elided (type bits 10,
\* length len(P) - 16, then P[16..]); the mirror rebuilds P byte for byte from
\* recvPrefix and recvCount (little endian) as they were before its increment,
\* and both are primed again for the next datagram in order.
C13_ElisionLaw ==
  /\ [][(Decode /\ inFlight = <<lastSent>> /\ Len(lastSent) >= 16 /\ IsData(lastSent)
           /\ lastFrame = NormalFrameOf(lastSent))
        => Primed']_vars
  /\ [][(Primed /\ (\E b \in Buffers : \E P \in Datagrams : Encode(b, P))
           /\ InOrder(lastSent'))
        => lastFrame' = ElidedFrameOf(lastSent')]_vars
  /\ [][(Decode /\ inFlight = <<lastSent>> /\ InOrder(lastSent)
           /\ wire = ElidedFrameOf(lastSent))
        => /\ lastDecoded'.wgPacket = lastSent
           /\ ~lastDecoded'.err /\ ~lastDecoded'.panic
           /\ lastDecoded'.wgPacket
                = wgRecvPrefix \o LittleEndianWrite(wgRecvCount)
                    \o SubSeq(wire, 3, Len(wire))
           /\ wgRecvCount' = AddOne(wgRecvCount)
           /\ Primed']_vars

\* H(1) went Normal, H(2) and H(3) went Data-elided, and the mirror has
\* rebuilt H(3) exactly
C13_Witness ==
  /\ nEncoded = 3
  /\ nElided = 2
  /\ lastDecoded.n = 3
  /\ lastDecoded.of = H(DataPrefixP, U64(3), <<3>>)
  /\ lastDecoded.wgPacket = lastDecoded.of
  /\ lastFrame = <<128, 1, 3>>

\* the step is an encode that emitted the Data-elided frame of its datagram
EncodeStep == \E b \in Buffers : \E P \in Datagrams : Encode(b, P)
Elided(wgPacket, frame) == Len(wgPacket) >= 16 /\ frame = ElidedFrameOf(wgPacket)

\* C14 as stated: from a freshly created codec, sendCount is the number of
\* frames emitted Data-elided so far and recvCount the number of frames
\* received so far (1 after the first Normal frame H(1)).
C14_CountersCountFrames ==
  /\ wgSendCount = U64(nElided)
  /\ ~lastDecoded.panic => wgRecvCount = U64(nDecoded)

\* C14: the counters follow the datagrams' counters.  An encode that emits a
\* Data-elided frame adds one to sendCount, one that emits a Normal frame for
\* a Data-tagged datagram of at least 16 bytes sets sendCount to the datagram's
\* counter, any other leaves it; a decode that completes adds one to recvCount,
\* after setting it to the datagram's counter when the frame is Normal and
\* the datagram Data-tagged.
C14_CountersFollowDatagrams ==
  /\ [][EncodeStep
        => wgSendCount' =
             IF Elided(lastSent', lastFrame') THEN AddOne(wgSendCount)
             ELSE IF Len(lastSent') >= 16 /\ IsData(lastSent')
             THEN CounterOf(lastSent')
             ELSE wgSendCount]_vars
  /\ [][(Decode /\ ~lastDecoded'.panic)
        => wgRecvCount' =
             IF wire[1] \div 64 = 0 /\ IsData(lastDecoded'.wgPacket)
             THEN AddOne(CounterOf(lastDecoded'.wgPacket))
             ELSE AddOne(wgRecvCount)]_vars

\* the first frame, H(1) in a Normal frame, has been decoded: the sender
\* holds counter 1 with no frame elided, the mirror holds 2 after one frame
C14_Witness ==
  /\ nEncoded = 1
  /\ nElided = 0
  /\ nDecoded = 1
  /\ lastDecoded.wgPacket = H(DataPrefixP, U64(1), <<1>>)
  /\ lastFrame = NormalFrameOf(lastDecoded.wgPacket)
  /\ wgSendCount = U64(1)
  /\ wgRecvCount = U64(2)

\* C15: in every codec state, the initial one included, a datagram that does
\* not start with 04 00 00 00 is sent in a Normal frame; a Data-elided frame
\* is emitted only for a Data-tagged datagram of at least 16 bytes whose
\* prefix is sendPrefix and whose counter is sendCount + 1.
C15_NonDataBypass ==
  [][EncodeStep
     => /\ ~IsData(lastSent') => lastFrame' = NormalFrameOf(lastSent')
        /\ lastFrame' # NormalFrameOf(lastSent')
             => /\ Len(lastSent') >= 16
                /\ IsData(lastSent')
                /\ PrefixOf(lastSent') = SendPrefixBytes(bufs', wgSendPrefix)
                /\ CounterOf(lastSent') = AddOne(wgSendCount)]_vars

C17_UnknownTypeAbortsStream ==
  /\ [][(/\ ReceiveRead
         /\ parseTunSafeHeader(conns[receiver.conn].rx).type
              \notin {tunSafeNormalType, tunSafeDataType})
        => /\ receiver'.pc = "onSocketError"
           /\ receiver'.err = ErrUnknownType
           /\ UNCHANGED <<wgRecvPrefix, wgRecvCount>>]_vars
  /\ [][ReceiveOnSocketError
        => /\ receiver'.ret.err = receiver.err
           /\ receiver'.ret.n = 0]_vars
  /\ [][(ReceiveRead /\ receiver.conn \in bindLog.aborted)
        => conns'[receiver.conn].rx = conns[receiver.conn].rx]_vars

\* C18: Open never dials; the first Send or receive call dials (and upgrades
\* to TLS); when the dial or the upgrade fails, tcp and tls are nil and closed
\* is set, and every later Send or receive call returns Closed without dialling,
\* until Open is called again.
C18_LazyDialAndLatch ==
  /\ [][calls'.Open # calls.Open
        => /\ bindLog'.dials = bindLog.dials
           /\ conns' = conns
           /\ bind'.tcp = bind.tcp]_vars
  /\ [][(/\ calls'.Send # calls.Send \/ calls'.receive # calls.receive
         /\ ~bind.closed
         /\ bind.tcp = NilConn
         /\ bind.currentPacket = <<>>)
        => bind'.mu # Unlocked]_vars
  /\ [][(bind.mu # Unlocked /\ bind'.mu = Unlocked /\ bind.tcp = NilConn)
        => bindLog'.dials = bindLog.dials + 1]_vars
  /\ [][(bindLog'.latched /\ ~bindLog.latched)
        => /\ bind'.closed
           /\ bind'.tcp = NilConn
           /\ bind'.tls = NilConn]_vars
  /\ [][(bindLog.latched /\ calls'.Send # calls.Send)
        => /\ sender'[1].pc = "idle"
           /\ sender'[1].ret = ErrClosed
           /\ bindLog'.dials = bindLog.dials]_vars
  /\ [][(bindLog.latched /\ calls'.receive # calls.receive)
        => /\ receiver'.pc = "idle"
           /\ receiver'.ret.err = ErrClosed
           /\ receiver'.ret.n = 0
           /\ bindLog'.dials = bindLog.dials]_vars

\* C19: Open called again with no Close in between returns BindAlreadyOpen,
\* whether or not a connection has been made since the first Open.
C19_OpenTwiceFails ==
  [][(calls'.Open # calls.Open /\ bindLog.opened)
     => bindLog'.openRet = ErrBindAlreadyOpen]_vars

\* C20: a transport error of Send or of the receive function is published on
\* the error channel unless the bind is closed at that moment, and the Closed
\* error is never published, whatever the interleaving of Send, receive, Close
\* and a following Open.
C20_ErrorPublication ==
  /\ [](\A i \in DOMAIN errorChan : errorChan[i] # ErrClosed)
  /\ [][SendOnSocketError(1)
        => errorChan' = IF bind.closed THEN errorChan
                        ELSE Append(errorChan, sender[1].err)]_vars
  /\ [][ReceiveOnSocketError
        => errorChan' = IF bind.closed THEN errorChan
                        ELSE Append(errorChan, receiver.err)]_vars

(* ------------------------------------------------------------------ *)
(* Close of the bind (checked under SpecBind)                           *)
(* ------------------------------------------------------------------ *)
BindCloseStep == calls'.Close = calls.Close + 1

\* the bind and its codec are as a Close leaves them
AsClosed ==
  /\ bind.closed /\ bind.tls = NilConn /\ bind.tcp = NilConn
  /\ wgSendCount = U64(0) /\ wgRecvCount = U64(0)

\* C21: Close closes the TLS and TCP handles and sets both to nil, sets
\* closed, zeroes the two counters of the codec and keeps its two prefixes;
\* a Close of a bind that a Close has left so changes nothing of the bind and
\* of the codec, and Close applied again to the state it leaves gives that
\* state.
C21_CloseEffect ==
  [][BindCloseStep =>
       /\ AsClosed'
       /\ bind.tls # NilConn => conns'[bind.tls].closed
       /\ bind.tcp # NilConn => conns'[bind.tcp].closed
       /\ wgSendPrefix' = wgSendPrefix
       /\ wgRecvPrefix' = wgRecvPrefix
       /\ bind'.currentPacket = bind.currentPacket
       /\ StdNetBindTcpClose(bindState)
            = StdNetBindTcpClose(StdNetBindTcpClose(bindState))
       /\ AsClosed => /\ bind' = bind /\ conns' = conns /\ errorChan' = errorChan
                      /\ UNCHANGED <<wgSendPrefix, wgSendCount, wgRecvPrefix,
                                     wgRecvCount>>]_vars

\* a Close has zeroed the counters of a codec that had sent a data datagram
\* and received one, and a second Close has run
C21_Witness ==
  /\ calls.Close = 2
  /\ AsClosed
  /\ wgSendPrefix # OwnArray
  /\ wgRecvPrefix # Zeros(wgDataPrefixSize)
  /\ \E c \in DOMAIN conns : conns[c].closed

(* ------------------------------------------------------------------ *)
(* The 14 bits of the length (checked under SpecCodecLong)              *)
(* ------------------------------------------------------------------ *)
\* C22: a datagram with more than 16383 bytes after its 16-byte header is
\* framed with its whole bytes as the payload (Normal), and the two type
\* bits of every emitted frame are 0b00 when the payload is the whole
\* datagram and 0b10 when the header was elided, whatever the length.
C22_LengthBound ==
  [][nEncoded' = nEncoded + 1 =>
       LET wgPacket == lastSent'
           frame == lastFrame'
           type == frame[1] \div 64
           whole == Slice(frame, tunSafeHeaderSize, Len(frame)) = wgPacket
       IN /\ Len(wgPacket) - wgDataHeaderSize > 16383 => whole
          /\ type \in {tunSafeNormalType, tunSafeDataType}
          /\ whole => type = tunSafeNormalType
          /\ ~whole => type = tunSafeDataType]_vars

(* ------------------------------------------------------------------ *)
(* Concurrent callers of the bind (checked under SpecSenders, SpecBind) *)
(* ------------------------------------------------------------------ *)
\* C23: whatever the interleaving of concurrent Send calls, the frames
\* written on a connection are in the order in which the codec encoded
\* them: a frame is never written before a frame encoded earlier.
C23_FramesWrittenInEncodeOrder ==
  \A i, j \in DOMAIN bindLog.written :
    (i < j /\ bindLog.written[i].conn = bindLog.written[j].conn)
      => bindLog.written[i].seq < bindLog.written[j].seq

\* the goroutine g is inside a blocking operation: a dial or TLS handshake,
\* a read or a write of the stream, a send on the error channel
Blocking(g) == g.pc \in {"dial", "read", "write", "onSocketError"}

\* C24: no goroutine is inside a dial, a TLS handshake, a stream read, a
\* stream write or a send on the error channel while it holds bind.mu.
C24_NoBlockingUnderMutex ==
  /\ \A s \in Senders : bind.mu = s => ~Blocking(sender[s])
  /\ bind.mu = Receiver => ~Blocking(receiver)

(* ------------------------------------------------------------------ *)
(* The receive function's buffer (checked under SpecBind)               *)
(* ------------------------------------------------------------------ *)
\* C25: a call made while bytes of the current packet are left reads nothing
\* from the stream; every call returns at most len(buf) bytes, the first
\* bytes of the packet, and keeps the rest as the current packet, so that the
\* bytes returned by the successful calls are the deframed packets in stream
\* order; a call that has deframed a packet does not return an error.
C25_ReceiveBuffering ==
  /\ [][(calls'.receive # calls.receive /\ bind.currentPacket # <<>>)
        => /\ conns' = conns
           /\ receiver'.pc = "idle"
           /\ receiver'.ret.err = NilErr
           /\ receiver'.ret.n <= receiver'.len
           /\ receiver'.ret.n = Len(receiver'.ret.bytes)
           /\ receiver'.ret.bytes \o bind'.currentPacket = bind.currentPacket]_vars
  /\ [][(calls'.receive # calls.receive /\ bind.currentPacket = <<>>)
        => bind'.currentPacket = <<>>]_vars
  /\ [][(ReceiveRead /\ receiver'.pc = "idle")
        => LET r == readNextPacket(tunsafe, conns[receiver.conn].rx)
           IN /\ receiver'.ret.n <= receiver.len
              /\ receiver'.ret.n = Len(receiver'.ret.bytes)
              /\ receiver'.ret.bytes \o bind'.currentPacket = r.wgPacket
              /\ conns'[receiver.conn].rx = r.conn]_vars
  /\ [][(ReceiveRead /\ receiver'.pc = "idle") => receiver'.ret.err = NilErr]_vars

(* ------------------------------------------------------------------ *)
(* Sequences of datagrams through the codec (checked under SpecCodec)   *)
(* ------------------------------------------------------------------ *)
\* C26: every datagram of a sequence encoded by a fresh codec and decoded in
\* the same order by a fresh codec is decoded without error to the bytes
\* that were encoded.
C26_RoundTripSequences ==
  lastDecoded.n > 0 =>
    /\ ~lastDecoded.err
    /\ ~lastDecoded.panic
    /\ lastDecoded.wgPacket = lastDecoded.of

(* ------------------------------------------------------------------ *)
(* Slices of the received packet (checked under SpecBind)               *)
(* ------------------------------------------------------------------ *)
\* C27: the receive function never stops in a slice expression of
\* onRecvPacket that is out of the range of the received packet, whatever
\* the Normal frame the peer has written.
C27_NoSliceOutOfRange == receiver.pc # "panic"

(* ------------------------------------------------------------------ *)
(* The state channel under every schedule (checked under Spec)          *)
(* ------------------------------------------------------------------ *)
\* C28: no goroutine sends on the state channel, or closes it, once Close
\* has closed it: the process never panics on the closed channel.
C28_NoSendOnClosedStateChan == ~panicked

\* C29: GetState delivers the publications of the event loop in the order in
\* which the loop made them: a publication delivered is newer than every
\* publication delivered before it.
C29_DeliveredInPublicationOrder ==
  [][(stateChan # <<>> /\ lastState' # lastState /\ Head(stateChan).id # 0)
       => Head(stateChan).id > lastState.id]_vars

(* ------------------------------------------------------------------ *)
(* The device and the network (checked under SpecScenario)              *)
(* ------------------------------------------------------------------ *)
\* C30: while Close has not been called, whenever the event loop waits in
\* its select the device is up exactly when isNetAvailable is true.
C30_DeviceFollowsNetwork ==
  (pc = "select" /\ ~closed) => (isUp <=> isNetAvailable)

\* the network went away and came back, the device was stopped and started
\* again, and the loop is idle after a third event
C30_Witness ==
  /\ Quiescent /\ ~closed
  /\ nEvents = 3
  /\ isNetAvailable /\ isUp
  /\ downCount >= 1 /\ upCount >= 2

(* ------------------------------------------------------------------ *)
(* The receive function of a closed bind (checked under SpecBind)       *)
(* ------------------------------------------------------------------ *)
\* C31: a call of the receive function made after Close has returned and
\* before the next Open returns the Closed error and delivers no bytes, also
\* when bytes of a deframed packet were left at the Close.
C31_ReceiveAfterClose ==
  [][(calls'.receive # calls.receive /\ calls.Close > 0 /\ ~bindLog.opened)
       => /\ receiver'.pc = "idle"
          /\ receiver'.ret.err = ErrClosed
          /\ receiver'.ret.n = 0
          /\ receiver'.ret.bytes = <<>>]_vars

(* ------------------------------------------------------------------ *)
(* The device after Close (checked under Spec)                          *)
(* ------------------------------------------------------------------ *)
\* C32: once Close has set closed, the event loop never calls device.Up(),
\* whichever events are queued when the loop's select races the close signal.
C32_NoUpAfterClose ==
  [][closed => upCount' = upCount]_vars

====
